---- MODULE Spec2Model ----
(***************************************************************************)
(* Telnet protocol engine (net.telnet 0.5.7): the RFC 1143 Q-Method        *)
(* negotiation engine of ProtocolFSM, the byte parser, and the stream      *)
(* adapter that drives the parser and writes its reactions.                *)
(***************************************************************************)
EXTENDS Integers, Sequences, FiniteSets, TLC

(***************************************************************************)
(* Bytes, commands, option identifiers                                     *)
(***************************************************************************)
IAC == 255
DONT == 254
DO == 253
WONT == 252
WILL == 251
SB == 250
GA == 249
EL == 248
EC == 247
AYT == 246
AO == 245
IP == 244
BRK == 243
DM == 242
NOP == 241
SE == 240
EOR == 239

NUL == 0
LF == 10
CR == 13

BINARY == 0
ECHO == 1
SUPPRESS_GO_AHEAD == 3
STATUS == 5
END_OF_RECORD == 25
UNREGISTERED == 99
DATA == 97

\* The byte values the model tracks (a representative subset of 0..255).
Byte == {NUL, ECHO, SUPPRESS_GO_AHEAD, STATUS, LF, CR, END_OF_RECORD, DATA, UNREGISTERED} \cup (EOR .. IAC)

Dirs == {"local", "remote"}

\* std::optional<T>: the empty sequence is std::nullopt, <<x>> holds x.
None == <<>>
Some(x) == <<x>>
HasValue(o) == Len(o) > 0
Value(o) == o[1]

(***************************************************************************)
(* Option descriptor, registry                                             *)
(***************************************************************************)
Option(id, sl, sr, ss, max) ==
  [id |-> id, supports_local |-> sl, supports_remote |-> sr,
   supports_subnegotiation |-> ss, max_subnegotiation_size |-> max]

supports(opt, direction) ==
  IF direction = "local" THEN opt.supports_local ELSE opt.supports_remote

\* option_registry::get
get(registry, id) == IF id \in DOMAIN registry THEN registry[id] ELSE None

(***************************************************************************)
(* Per-option Q-Method status record (one per option, both directions)     *)
(***************************************************************************)
QStates == {"NO", "WANTYES", "WANTNO", "YES"}

OptionStatusRecord == [d \in Dirs |-> [state |-> "NO", queue |-> FALSE]]

enabled(status, direction) == status[direction].state = "YES"
disabled(status, direction) == status[direction].state = "NO"
pending_enable(status, direction) == status[direction].state = "WANTYES"
pending_disable(status, direction) == status[direction].state = "WANTNO"
queued(status, direction) == status[direction].queue
local_enabled(status) == enabled(status, "local")
remote_enabled(status) == enabled(status, "remote")
is_enabled(status) == local_enabled(status) \/ remote_enabled(status)

enable(status, direction) == [status EXCEPT ![direction].state = "YES"]
disable(status, direction) == [status EXCEPT ![direction].state = "NO"]
pend_enable(status, direction) == [status EXCEPT ![direction].state = "WANTYES"]
pend_disable(status, direction) == [status EXCEPT ![direction].state = "WANTNO"]
dequeue(status, direction) == [status EXCEPT ![direction].queue = FALSE]

\* enqueue returns the record and an error code ("" is success).
enqueue(status, direction) ==
  IF status[direction].queue \/ status[direction].state \in {"NO", "YES"}
  THEN [status |-> status, ec |-> "negotiation_queue_error"]
  ELSE [status |-> [status EXCEPT ![direction].queue = TRUE], ec |-> ""]

(***************************************************************************)
(* ProtocolFSM: negotiation engine                                         *)
(***************************************************************************)
make_negotiation_command(direction, enable_) ==
  IF direction = "remote"
  THEN (IF enable_ THEN DO ELSE DONT)
  ELSE (IF enable_ THEN WILL ELSE WONT)

\* NegotiationResponse{direction, enable, opt}
NegotiationResponse(direction, enable_, opt) ==
  [kind |-> "negotiation", direction |-> direction, enable |-> enable_, opt |-> opt]

\* std::tuple{option_handler_registry_.handle_*(opt, direction), optional NegotiationResponse}
HandlerResponse(handler, opt, direction, negotiation) ==
  [kind |-> "handler", handler |-> handler, opt |-> opt, direction |-> direction,
   negotiation |-> negotiation]

\* The negotiation frame a response asks the adapter to write: IAC, the command
\* of (direction, enable), the option id; std::nullopt when it asks for none.
FrameOf(response) ==
  LET n == IF ~HasValue(response) THEN None
           ELSE IF Value(response).kind = "negotiation" THEN response
           ELSE IF Value(response).kind = "handler" THEN Value(response).negotiation
           ELSE None
  IN IF HasValue(n)
     THEN Some(<<IAC, make_negotiation_command(Value(n).direction, Value(n).enable), Value(n).opt>>)
     ELSE None

\* The FSM object together with the ProtocolConfig registry it references.
NewFSM(registry) ==
  [current_state_ |-> "Normal",
   current_command_ |-> None,
   current_option_ |-> None,
   subnegotiation_buffer_ |-> <<>>,
   option_status_ |-> [id \in Byte |-> OptionStatusRecord],
   registered_options |-> registry]

SetStatus(f, id, status) == [f EXCEPT !.option_status_[id] = status]

request_option(f, opt, direction) ==
  LET status == f.option_status_[opt]
      ret(g, ec, response, log) == [fsm |-> g, ec |-> ec, response |-> response, log |-> log]
  IN IF ~HasValue(get(f.registered_options, opt))
       THEN ret(f, "option_not_available", None, "option_not_available")
     ELSE IF enabled(status, direction)
       THEN ret(f, "", None, "invalid_negotiation")
     ELSE IF pending_enable(status, direction) /\ ~queued(status, direction)
       THEN ret(f, "", None, "invalid_negotiation")
     ELSE IF pending_enable(status, direction) /\ queued(status, direction)
       THEN ret(SetStatus(f, opt, dequeue(status, direction)), "", None, "")
     ELSE IF pending_disable(status, direction) /\ ~queued(status, direction)
       THEN LET e == enqueue(status, direction)
            IN IF e.ec # "" THEN ret(f, e.ec, None, e.ec)
               ELSE ret(SetStatus(f, opt, e.status), "", None, "")
     ELSE IF pending_disable(status, direction) /\ queued(status, direction)
       THEN ret(f, "", None, "invalid_negotiation")
     ELSE IF disabled(status, direction)
       THEN ret(SetStatus(f, opt, pend_enable(status, direction)), "",
                Some(NegotiationResponse(direction, TRUE, opt)), "")
     ELSE ret(f, "protocol_violation", None, "protocol_violation")

disable_option(f, opt, direction) ==
  LET status == f.option_status_[opt]
      ret(g, ec, response, awaitable, log) ==
        [fsm |-> g, ec |-> ec, response |-> response, awaitable |-> awaitable, log |-> log]
  IN IF ~HasValue(get(f.registered_options, opt))
       THEN ret(f, "option_not_available", None, None, "option_not_available")
     ELSE IF disabled(status, direction)
       THEN ret(f, "", None, None, "invalid_negotiation")
     ELSE IF pending_disable(status, direction) /\ ~queued(status, direction)
       THEN ret(f, "", None, None, "invalid_negotiation")
     ELSE IF pending_disable(status, direction) /\ queued(status, direction)
       THEN ret(SetStatus(f, opt, dequeue(status, direction)), "", None, None, "")
     ELSE IF pending_enable(status, direction) /\ ~queued(status, direction)
       THEN LET e == enqueue(status, direction)
            IN IF e.ec # "" THEN ret(f, e.ec, None, None, e.ec)
               ELSE ret(SetStatus(f, opt, e.status), "", None, None, "")
     ELSE IF pending_enable(status, direction) /\ queued(status, direction)
       THEN ret(f, "", None, None, "invalid_negotiation")
     ELSE IF enabled(status, direction)
       THEN ret(SetStatus(f, opt, pend_disable(status, direction)), "",
                Some(NegotiationResponse(direction, FALSE, opt)),
                Some([handler |-> "disablement", opt |-> opt, direction |-> direction]), "")
     ELSE ret(f, "protocol_violation", None, None, "protocol_violation")

change_state(f, next_state) ==
  IF next_state = "Normal"
  THEN [f EXCEPT !.current_command_ = None, !.current_option_ = None,
                 !.subnegotiation_buffer_ = <<>>, !.current_state_ = next_state]
  ELSE [f EXCEPT !.current_state_ = next_state]

\* The result tuple of process_byte and of every handle_state_* helper.
Result(f, ec, forward, response, log) ==
  [fsm |-> f, ec |-> ec, forward |-> forward, response |-> response, log |-> log]

\* The outcome of one branch of handle_state_option_negotiation on a
\* registered option: the new status record, the response and the logged error.
Outcome(status, response, log) == [status |-> status, response |-> response, log |-> log]

\* Mutant: the queued opposite request is acted on but left in the queue.
EnableInWantYes_KeepsQueue(status, opt, direction) ==
  IF queued(status, direction)
  THEN Outcome(pend_disable(status, direction),
               Some(NegotiationResponse(direction, FALSE, opt.id)), "")
  ELSE Outcome(enable(status, direction),
               Some(HandlerResponse("enablement", opt.id, direction, None)), "")

\* Mutant: the peer's agreement to our own request is itself acknowledged.
EnableInWantYes_Acknowledges(status, opt, direction) ==
  IF queued(status, direction)
  THEN Outcome(pend_disable(dequeue(status, direction), direction),
               Some(NegotiationResponse(direction, FALSE, opt.id)), "")
  ELSE Outcome(enable(status, direction),
               Some(HandlerResponse("enablement", opt.id, direction,
                                    Some(NegotiationResponse(direction, TRUE, opt.id)))), "")

\* WILL/DO in WANTYES
EnableInWantYes(status, opt, direction) ==
  IF queued(status, direction)
  THEN Outcome(pend_disable(dequeue(status, direction), direction),
               Some(NegotiationResponse(direction, FALSE, opt.id)), "")
  ELSE Outcome(enable(status, direction),
               Some(HandlerResponse("enablement", opt.id, direction, None)), "")

\* WILL/DO in WANTNO
EnableInWantNo(status, opt, direction) ==
  IF queued(status, direction)
  THEN Outcome(enable(dequeue(status, direction), direction),
               Some(HandlerResponse("enablement", opt.id, direction, None)), "")
  ELSE Outcome(disable(status, direction), None, "invalid_negotiation")

\* WILL/DO in NO
EnableInNo(status, opt, direction) ==
  IF supports(opt, direction)
  THEN Outcome(enable(status, direction),
               Some(HandlerResponse("enablement", opt.id, direction,
                                    Some(NegotiationResponse(direction, TRUE, opt.id)))), "")
  ELSE Outcome(status, Some(NegotiationResponse(direction, FALSE, opt.id)), "")

\* WONT/DONT in WANTNO
DisableInWantNo(status, opt, direction) ==
  IF queued(status, direction)
  THEN Outcome(pend_enable(dequeue(status, direction), direction),
               Some(NegotiationResponse(direction, TRUE, opt.id)), "")
  ELSE Outcome(disable(status, direction), None, "")

\* Mutant: the refusal is accepted without clearing the queued opposite request.
DisableInWantYes_KeepsQueue(status, opt, direction) ==
  Outcome(disable(status, direction), None, "")

\* WONT/DONT in WANTYES
DisableInWantYes(status, opt, direction) ==
  IF queued(status, direction)
  THEN Outcome(disable(dequeue(status, direction), direction), None, "")
  ELSE Outcome(disable(status, direction), None, "")

\* WONT/DONT in YES
DisableInYes(status, opt, direction) ==
  Outcome(disable(status, direction),
          Some(HandlerResponse("disablement", opt.id, direction,
                               Some(NegotiationResponse(direction, FALSE, opt.id)))), "")

\* The registered-option branch of handle_state_option_negotiation.
NegotiateRegistered(status, opt, direction, request_to_enable) ==
  IF (request_to_enable /\ enabled(status, direction))
     \/ (~request_to_enable /\ disabled(status, direction))
    THEN Outcome(status, None, "invalid_negotiation")
  ELSE IF request_to_enable
    THEN IF pending_enable(status, direction) THEN EnableInWantYes(status, opt, direction)
         ELSE IF pending_disable(status, direction) THEN EnableInWantNo(status, opt, direction)
         ELSE EnableInNo(status, opt, direction)
  ELSE IF pending_disable(status, direction) THEN DisableInWantNo(status, opt, direction)
       ELSE IF pending_enable(status, direction) THEN DisableInWantYes(status, opt, direction)
       ELSE DisableInYes(status, opt, direction)

handle_state_option_negotiation(f, byte) ==
  IF ~HasValue(f.current_command_)
  THEN Result(change_state(f, "Normal"), "", FALSE, None, "protocol_violation")
  ELSE
    LET cmd == Value(f.current_command_)
        direction == IF cmd = WILL \/ cmd = WONT THEN "remote" ELSE "local"
        current_option == get(f.registered_options, byte)
        request_to_enable == (cmd = DO \/ cmd = WILL)
    IN IF HasValue(current_option)
       THEN LET n == NegotiateRegistered(f.option_status_[byte], Value(current_option),
                                         direction, request_to_enable)
            IN Result(change_state(SetStatus(f, byte, n.status), "Normal"),
                      "", FALSE, n.response, n.log)
       ELSE Result(change_state(f, "Normal"), "", FALSE,
                   IF request_to_enable
                   THEN Some(NegotiationResponse(direction, FALSE, byte))
                   ELSE None,
                   "option_not_available")

(***************************************************************************)
(* ProtocolFSM: byte parser                                                *)
(***************************************************************************)
\* Mutant: the IAC that starts an escape is forwarded as data.
handle_state_normal_ForwardsIAC(f, byte) ==
  IF byte = IAC
    THEN Result(change_state(f, "HasIAC"), "", TRUE, None, "")
  ELSE IF byte = CR /\ ~enabled(f.option_status_[BINARY], "remote")
    THEN Result(change_state(f, "HasCR"), "", FALSE, None, "")
  ELSE IF byte = NUL
    THEN Result(f, "", FALSE, None, "")
  ELSE Result(f, "", TRUE, None, "")

handle_state_normal(f, byte) ==
  IF byte = IAC
    THEN Result(change_state(f, "HasIAC"), "", FALSE, None, "")
  ELSE IF byte = CR /\ ~enabled(f.option_status_[BINARY], "remote")
    THEN Result(change_state(f, "HasCR"), "", FALSE, None, "")
  ELSE IF byte = NUL
    THEN Result(f, "", FALSE, None, "")
  ELSE Result(f, "", TRUE, None, "")

handle_state_has_cr(f, byte) ==
  IF byte = LF
    THEN Result(change_state(f, "Normal"), "end_of_line", TRUE, None, "")
  ELSE IF byte = NUL
    THEN Result(change_state(f, "Normal"), "carriage_return", FALSE, None, "")
  ELSE IF byte = IAC
    THEN Result(change_state(f, "HasIAC"), "carriage_return", FALSE, None, "protocol_violation")
  ELSE Result(change_state(f, "Normal"), "carriage_return", TRUE, None, "protocol_violation")

\* ProtocolConfig::get_ayt_response() wrapped in the response variant.
AytResponse == [kind |-> "ayt"]

handle_state_iac(f, byte) ==
  IF byte = IAC
  THEN Result(change_state(f, "Normal"), "", TRUE, None, "")
  ELSE
    LET g == [f EXCEPT !.current_command_ = Some(byte)]
        done(ec, response, log) == Result(change_state(g, "Normal"), ec, FALSE, response, log)
    IN CASE byte \in {WILL, WONT, DO, DONT} ->
              Result(change_state(g, "OptionNegotiation"), "", FALSE, None, "")
         [] byte = SB ->
              Result(change_state(g, "SubnegotiationOption"), "", FALSE, None, "")
         [] byte = SE -> done("", None, "invalid_subnegotiation")
         [] byte = DM -> done("data_mark", None, "")
         [] byte = GA ->
              IF enabled(g.option_status_[SUPPRESS_GO_AHEAD], "remote")
              THEN done("", None, "ignored_go_ahead")
              ELSE done("go_ahead", None, "")
         [] byte = AYT -> done("", Some(AytResponse), "")
         [] byte = EOR ->
              IF enabled(g.option_status_[END_OF_RECORD], "remote")
              THEN done("end_of_record", None, "")
              ELSE done("", None, "")
         [] byte = NOP -> done("", None, "")
         [] byte = EC -> done("erase_character", None, "")
         [] byte = EL -> done("erase_line", None, "")
         [] byte = AO -> done("abort_output", None, "")
         [] byte = IP -> done("interrupt_process", None, "")
         [] byte = BRK -> done("telnet_break", None, "")
         [] OTHER -> done("", None, "invalid_command")

\* Cap on subnegotiation payloads carried by the option descriptors of the model.
MaxSubnegotiationSize == 2

\* option_registry::upsert(id): idempotent insert of a defaulted descriptor.
upsert(registry, id) ==
  IF HasValue(get(registry, id)) THEN registry
  ELSE [i \in (DOMAIN registry) \cup {id} |->
          IF i = id THEN Some(Option(id, FALSE, FALSE, FALSE, MaxSubnegotiationSize))
          ELSE registry[i]]

handle_state_subnegotiation_option(f, byte) ==
  LET found == get(f.registered_options, byte)
      registry == IF HasValue(found) THEN f.registered_options
                  ELSE upsert(f.registered_options, byte)
      opt == Value(get(registry, byte))
      log == IF ~HasValue(found) THEN "invalid_subnegotiation"
             ELSE IF ~opt.supports_subnegotiation \/ ~is_enabled(f.option_status_[byte])
               THEN "invalid_subnegotiation"
             ELSE ""
      g == [f EXCEPT !.registered_options = registry, !.current_option_ = Some(opt)]
  IN Result(change_state(g, "Subnegotiation"), "", FALSE, None, log)

\* Mutant: a payload byte is discarded instead of being appended to the buffer.
handle_state_subnegotiation_DropsByte(f, byte) ==
  IF ~HasValue(f.current_option_)
    THEN Result(change_state(f, "Normal"), "protocol_violation", FALSE, None, "protocol_violation")
  ELSE IF byte = IAC
    THEN Result(change_state(f, "SubnegotiationIAC"), "", FALSE, None, "")
  ELSE Result(f, "", FALSE, None, "")

handle_state_subnegotiation(f, byte) ==
  IF ~HasValue(f.current_option_)
    THEN Result(change_state(f, "Normal"), "protocol_violation", FALSE, None, "protocol_violation")
  ELSE IF byte = IAC
    THEN Result(change_state(f, "SubnegotiationIAC"), "", FALSE, None, "")
  ELSE
    LET max_size == Value(f.current_option_).max_subnegotiation_size
    IN IF max_size > 0 /\ Len(f.subnegotiation_buffer_) >= max_size
       THEN Result(change_state(f, "Normal"), "subnegotiation_overflow", FALSE, None,
                   "subnegotiation_overflow")
       ELSE Result([f EXCEPT !.subnegotiation_buffer_ = Append(@, byte)], "", FALSE, None, "")

\* awaitables::SubnegotiationAwaitable: what the awaited handler is given and,
\* where the FSM itself decides it, the (option, payload) tuple it yields.
\* outcome "handler": the application's handler yields the reply;
\* outcome "reply": the coroutine co_returns (opt, reply);
\* outcome "no_return": the coroutine body ends without a co_return.
SubnegotiationAwaitable(opt, buffer, outcome, reply) ==
  [kind |-> "subnegotiation", opt |-> opt, buffer |-> buffer,
   outcome |-> outcome, reply |-> reply]

RECURSIVE StatusEntries_NoDoubling(_, _, _)
\* Mutant: option ids 255 and 240 are written once.
StatusEntries_NoDoubling(option_status, lo, hi) ==
  IF lo > hi THEN <<>>
  ELSE IF lo < hi
    THEN StatusEntries_NoDoubling(option_status, lo, (lo + hi) \div 2)
         \o StatusEntries_NoDoubling(option_status, (lo + hi) \div 2 + 1, hi)
  ELSE IF lo \notin DOMAIN option_status THEN <<>>
  ELSE LET l == IF local_enabled(option_status[lo]) THEN <<WILL, lo>> ELSE <<>>
           r == IF remote_enabled(option_status[lo]) THEN <<DO, lo>> ELSE <<>>
       IN l \o r

RECURSIVE StatusEntries(_, _, _)
\* The loop over OptionStatusDB in handle_status_subnegotiation: the entries
\* pushed for the indices lo .. hi, in ascending order (the range is halved
\* so that the evaluation stays shallow; an index outside the bytes of the
\* model is an option that is never enabled).
StatusEntries(option_status, lo, hi) ==
  IF lo > hi THEN <<>>
  ELSE IF lo < hi
    THEN StatusEntries(option_status, lo, (lo + hi) \div 2)
         \o StatusEntries(option_status, (lo + hi) \div 2 + 1, hi)
  ELSE IF lo \notin DOMAIN option_status THEN <<>>
  ELSE LET id == IF lo = IAC \/ lo = SE THEN <<lo, lo>> ELSE <<lo>>
           l == IF local_enabled(option_status[lo]) THEN <<WILL>> \o id ELSE <<>>
           r == IF remote_enabled(option_status[lo]) THEN <<DO>> \o id ELSE <<>>
       IN l \o r

IS == 0
SEND == 1

\* Returns the awaitable and the logged error.
handle_status_subnegotiation(f, opt, buffer) ==
  LET out(a, log) == [awaitable |-> a, log |-> log]
  IN IF Len(buffer) = 0
       THEN out(SubnegotiationAwaitable(opt, buffer, "no_return", <<>>), "invalid_subnegotiation")
     ELSE IF buffer[1] = IS
       THEN IF remote_enabled(f.option_status_[STATUS])
            THEN out(SubnegotiationAwaitable(opt, buffer, "handler", <<>>), "")
            ELSE out(SubnegotiationAwaitable(opt, buffer, "reply", <<>>), "option_not_available")
     ELSE IF buffer[1] = SEND
       THEN IF local_enabled(f.option_status_[STATUS])
            THEN out(SubnegotiationAwaitable(opt, buffer, "reply",
                                             <<IS>> \o StatusEntries(f.option_status_, 0, 255)), "")
            ELSE out(SubnegotiationAwaitable(opt, buffer, "reply", <<>>), "option_not_available")
     ELSE out(SubnegotiationAwaitable(opt, buffer, "reply", <<>>), "invalid_subnegotiation")

handle_state_subnegotiation_iac(f, byte) ==
  IF ~HasValue(f.current_option_)
    THEN Result(change_state(f, "Normal"), "protocol_violation", FALSE, None, "protocol_violation")
  ELSE
    LET opt == Value(f.current_option_)
        max_size == opt.max_subnegotiation_size
    IN IF byte = SE
       THEN IF opt.supports_subnegotiation /\ is_enabled(f.option_status_[opt.id])
            THEN IF opt.id = STATUS
                 THEN LET h == handle_status_subnegotiation(f, opt.id, f.subnegotiation_buffer_)
                      IN Result(change_state(f, "Normal"), "", FALSE, Some(h.awaitable), h.log)
                 ELSE Result(change_state(f, "Normal"), "", FALSE,
                             Some(SubnegotiationAwaitable(opt.id, f.subnegotiation_buffer_,
                                                          "handler", <<>>)), "")
            ELSE Result(change_state(f, "Normal"), "", FALSE, None, "")
       ELSE IF max_size > 0 /\ Len(f.subnegotiation_buffer_) >= max_size
         THEN Result(change_state(f, "Normal"), "subnegotiation_overflow", FALSE, None,
                     "subnegotiation_overflow")
       ELSE IF byte # IAC
         THEN Result(change_state([f EXCEPT !.subnegotiation_buffer_ = @ \o <<IAC, byte>>],
                                  "Subnegotiation"), "", FALSE, None, "invalid_command")
       ELSE Result(change_state([f EXCEPT !.subnegotiation_buffer_ = Append(@, IAC)],
                                "Subnegotiation"), "", FALSE, None, "")

process_byte(f, byte) ==
  CASE f.current_state_ = "Normal" -> handle_state_normal(f, byte)
    [] f.current_state_ = "HasCR" -> handle_state_has_cr(f, byte)
    [] f.current_state_ = "HasIAC" -> handle_state_iac(f, byte)
    [] f.current_state_ = "OptionNegotiation" -> handle_state_option_negotiation(f, byte)
    [] f.current_state_ = "SubnegotiationOption" -> handle_state_subnegotiation_option(f, byte)
    [] f.current_state_ = "Subnegotiation" -> handle_state_subnegotiation(f, byte)
    [] f.current_state_ = "SubnegotiationIAC" -> handle_state_subnegotiation_iac(f, byte)
    [] OTHER -> Result(change_state(f, "Normal"), "protocol_violation", FALSE, None,
                       "protocol_violation")

(***************************************************************************)
(* stream: context, transport writes, static frame buffers                 *)
(***************************************************************************)
\* stream::context_type after construction.
NewContext ==
  [input_side_buffer |-> <<>>,
   output_side_buffer |-> <<>>,
   deferred_transport_error |-> "",
   deferred_processing_signal |-> "",
   urgent_data_state |-> "no_urgent_data",
   waiting_for_urgent_data |-> FALSE]

\* urgent_data_tracker::saw_urgent and saw_data_mark, as the state they leave.
saw_urgent(state) ==
  CASE state = "no_urgent_data" -> "has_urgent_data"
    [] state = "unexpected_data_mark" -> "no_urgent_data"
    [] OTHER -> state

\* Mutant: a second data mark resets the tracker.
saw_data_mark_Resets(state) ==
  CASE state = "no_urgent_data" -> "unexpected_data_mark"
    [] OTHER -> "no_urgent_data"

saw_data_mark(state) ==
  CASE state = "has_urgent_data" -> "no_urgent_data"
    [] state = "no_urgent_data" -> "unexpected_data_mark"
    [] OTHER -> state

\* The completion-token types async_write_negotiation is instantiated with:
\* the read operation itself (a reply written directly), asio::use_awaitable
\* (a reply written from a spawned coroutine, and async_disable_option), and
\* the application's completion token.
TokenTypes == {"Self", "use_awaitable", "CompletionToken"}

\* One write handed to the transport: who resumes when it completes, the
\* bytes of the buffer handed to asio::async_write, and where it comes from
\* (response: the argument of async_write_negotiation; cause: the inbound
\* negotiation command it answers).
Write(owner, kind, bytes, response, cause) ==
  [owner |-> owner, kind |-> kind, bytes |-> bytes, response |-> response, cause |-> cause]

NoStatus == [state |-> "NO", queue |-> FALSE]
NoCause == [command |-> NUL, opt |-> NUL, before |-> NoStatus, after |-> NoStatus]

\* async_write_negotiation<token>: the function-local static array is
\* initialised by the first call of each instantiation and is what every call
\* of that instantiation hands to asio::async_write.  Returns the statics and
\* the write.
async_write_negotiation(statics, response, token, owner, cause) ==
  LET frame == <<IAC, make_negotiation_command(response.direction, response.enable), response.opt>>
      buf == IF HasValue(statics[token]) THEN Value(statics[token]) ELSE frame
  IN [statics |-> [statics EXCEPT ![token] = Some(buf)],
      write |-> Write(owner, "negotiation", buf, Some(response), cause)]

\* ProtocolConfig::get_ayt_response(): the configured response, "YES\r\n".
AytString == <<89, 69, 83, CR, LF>>

(***************************************************************************)
(* stream::input_processor                                                 *)
(***************************************************************************)
\* The input_processor of one async_read_some: state_, the application
\* window (cap: its capacity; window: the bytes between user_buf_begin_ and
\* write_it_), what the operation is suspended on (with the step of a Synch
\* send, the option and the error of a spawned coroutine), the completion
\* delivered to the application, and the history of the reactions of this
\* read_some:
\* unwritten: a reaction whose transport write has not completed;
\* replies: reactions written so far; later: a byte was processed after one;
\* early: a byte was processed, or the read completed, while one was unwritten;
\* synch_data: a byte was written to the window while the tracker was in
\* has_urgent_data; signals: the calls of process_fsm_signals, each with the
\* signal, the bytes in the window before and after, and the signal left;
\* arrived: the bytes the raw input buffer held when the read_some started,
\* followed by those committed to it since; processed: the bytes passed to
\* process_byte, in order.
NewProcessor(cap) ==
  [state_ |-> "initializing", cap |-> cap, window |-> <<>>, waits |-> "none",
   synch_step |-> 0, coroutine_opt |-> NUL, coroutine_ec |-> "", result |-> None,
   unwritten |-> FALSE, replies |-> 0, later |-> FALSE, early |-> FALSE, synch_data |-> FALSE,
   signals |-> <<>>, arrived |-> <<>>, processed |-> <<>>]

NoProcessor == [NewProcessor(0) EXCEPT !.state_ = "none"]

\* The objects one invocation of the input_processor works on, and what it
\* hands to the transport: writes submitted (in order) and whether it has
\* started a transport read.
Run(ctx, f, proc, statics, lastn) ==
  [context_ |-> ctx, fsm_ |-> f, processor |-> proc, statics |-> statics, last |-> lastn,
   writes |-> <<>>, oob |-> FALSE]

\* stream::launch_wait_for_urgent_data
launch_wait_for_urgent_data(s) ==
  LET was == s.context_.waiting_for_urgent_data
      launch == ~was /\ s.context_.urgent_data_state # "has_urgent_data"
  IN [s EXCEPT !.context_.waiting_for_urgent_data = TRUE,
               !.oob = @ \/ launch]

\* input_processor::complete
complete(s, ec, bytes_transferred) ==
  [s EXCEPT !.processor.state_ = "done",
            !.processor.waits = "none",
            !.processor.early = @ \/ s.processor.unwritten,
            !.processor.result = Some([ec |-> ec, bytes |-> bytes_transferred])]

\* input_processor::process_write_error
process_write_error(s, ec) ==
  IF s.context_.deferred_transport_error # "" THEN s
  ELSE [s EXCEPT !.context_.deferred_transport_error = ec]

\* The call process_fsm_signals(signal_ec) that turned run s into run t and
\* left `left` of the signal, appended to the history of the read_some.
SignalHandled(s, t, signal_ec, left) ==
  [run |-> [t EXCEPT !.processor.signals =
                        Append(@, [signal |-> signal_ec, before |-> Len(s.processor.window),
                                   after |-> Len(t.processor.window), left |-> left])],
   ec |-> left]

\* Mutant: an erase is absorbed whether or not the window holds a byte.
process_fsm_signals_AbsorbsErase(s, signal_ec) ==
  LET out(t, ec) == SignalHandled(s, t, signal_ec, ec)
      w == s.processor.window
  IN IF signal_ec = "carriage_return"
       THEN out([s EXCEPT !.processor.window = Append(w, CR)], "")
     ELSE IF signal_ec = "erase_character"
       THEN out([s EXCEPT !.processor.window = SubSeq(w, 1, Len(w) - 1)], "")
     ELSE IF signal_ec = "erase_line"
       THEN out([s EXCEPT !.processor.window = <<>>], "")
     ELSE IF signal_ec = "data_mark"
       THEN out(launch_wait_for_urgent_data(
                  [s EXCEPT !.context_.urgent_data_state = saw_data_mark(@)]), "")
     ELSE out(s, signal_ec)

\* input_processor::process_fsm_signals: the run and the signal left to the loop.
process_fsm_signals(s, signal_ec) ==
  LET out(t, ec) == SignalHandled(s, t, signal_ec, ec)
      w == s.processor.window
  IN IF signal_ec = "carriage_return"
       THEN out([s EXCEPT !.processor.window = Append(w, CR),
                          !.processor.synch_data =
                             @ \/ s.context_.urgent_data_state = "has_urgent_data"], "")
     ELSE IF signal_ec = "erase_character" /\ Len(w) # 0
       THEN out([s EXCEPT !.processor.window = SubSeq(w, 1, Len(w) - 1)], "")
     ELSE IF signal_ec = "erase_line" /\ Len(w) # 0
       THEN out([s EXCEPT !.processor.window = <<>>], "")
     ELSE IF signal_ec = "data_mark"
       THEN out(launch_wait_for_urgent_data(
                  [s EXCEPT !.context_.urgent_data_state = saw_data_mark(@)]), "")
     ELSE out(s, signal_ec)

RECURSIVE escape_telnet_output_SingleIAC(_, _)
\* Mutant: IAC is copied without being doubled.
escape_telnet_output_SingleIAC(f, data) ==
  IF data = <<>> THEN <<>>
  ELSE LET byte == Head(data)
           binary == enabled(f.option_status_[BINARY], "local")
           pre == IF byte = LF /\ ~binary THEN <<CR>> ELSE <<>>
           post == IF byte = CR /\ ~binary THEN <<NUL>> ELSE <<>>
       IN pre \o <<byte>> \o post \o escape_telnet_output_SingleIAC(f, Tail(data))

RECURSIVE escape_telnet_output_BareCR(_, _)
\* Mutant: no NUL is appended after CR.
escape_telnet_output_BareCR(f, data) ==
  IF data = <<>> THEN <<>>
  ELSE LET byte == Head(data)
           binary == enabled(f.option_status_[BINARY], "local")
           pre == IF byte = LF /\ ~binary THEN <<CR>> ELSE <<>>
           post == IF byte = IAC THEN <<byte>> ELSE <<>>
       IN pre \o <<byte>> \o post \o escape_telnet_output_BareCR(f, Tail(data))

RECURSIVE escape_telnet_output(_, _)
\* stream::escape_telnet_output: IAC doubled; LF to CR LF and CR to CR NUL
\* unless BINARY is enabled locally.
escape_telnet_output(f, data) ==
  IF data = <<>> THEN <<>>
  ELSE LET byte == Head(data)
           binary == enabled(f.option_status_[BINARY], "local")
           pre == IF byte = LF /\ ~binary THEN <<CR>> ELSE <<>>
           post == IF byte = IAC THEN <<byte>>
                   ELSE IF byte = CR /\ ~binary THEN <<NUL>>
                   ELSE <<>>
       IN pre \o <<byte>> \o post \o escape_telnet_output(f, Tail(data))

\* stream::escape_telnet_output(escaped_data, data): the error code returned
\* and the vector as it is left. `thrown` is what a push_back throws: nothing
\* (""), std::bad_alloc or another exception; the catch clauses clear the
\* whole vector.
escape_into(f, escaped_data, data, thrown) ==
  IF thrown = "" THEN [ec |-> "", escaped_data |-> escaped_data \o escape_telnet_output(f, data)]
  ELSE IF thrown = "bad_alloc" THEN [ec |-> "not_enough_memory", escaped_data |-> <<>>]
  ELSE [ec |-> "internal_error", escaped_data |-> <<>>]

\* Mutant: the enablement of the option is not looked at.
async_write_subnegotiation_NoEnabledCheck(f, id, subnegotiation_buffer, thrown) ==
  LET opt == get(f.registered_options, id)
      escaped == escape_into(f, <<IAC, SB, id>>, subnegotiation_buffer, thrown)
  IN IF ~HasValue(opt) \/ ~Value(opt).supports_subnegotiation
       THEN [ec |-> "invalid_subnegotiation", bytes |-> <<>>]
     ELSE [ec |-> "", bytes |-> escaped.escaped_data \o <<IAC, SE>>]

\* stream::async_write_subnegotiation: the error reported without writing, or
\* the frame handed to async_write_temp_buffer. The value returned by
\* escape_telnet_output is assigned to std::ignore, so the local ec that is
\* tested after it is never set and IAC SE is appended to whatever the
\* escape left in the vector.
async_write_subnegotiation(f, id, subnegotiation_buffer, thrown) ==
  LET opt == get(f.registered_options, id)
      escaped == escape_into(f, <<IAC, SB, id>>, subnegotiation_buffer, thrown)
  IN IF ~HasValue(opt) \/ ~Value(opt).supports_subnegotiation
       THEN [ec |-> "invalid_subnegotiation", bytes |-> <<>>]
     ELSE IF ~is_enabled(f.option_status_[id])
       THEN [ec |-> "option_not_available", bytes |-> <<>>]
     ELSE [ec |-> "", bytes |-> escaped.escaped_data \o <<IAC, SE>>]

\* The inbound command a reply answers.
CauseOf(lastn) ==
  [command |-> IF HasValue(lastn.command) THEN Value(lastn.command) ELSE NUL,
   opt |-> lastn.opt,
   before |-> lastn.before[lastn.direction], after |-> lastn.after[lastn.direction]]

\* Whether a response asks for a transport write that is known when
\* process_byte returns it.
NeedsWrite(response) ==
  /\ HasValue(response)
  /\ \/ HasValue(FrameOf(response))
     \/ Value(response).kind = "ayt"
     \/ Value(response).kind = "subnegotiation" /\ Value(response).reply # <<>>

\* stream::async_send_synch, first step: a normal NUL.
async_send_synch(s) ==
  [s EXCEPT !.writes = Append(@, Write("read", "nul", <<NUL>>, None, NoCause)),
            !.processor.waits = "synch",
            !.processor.synch_step = 1]

\* The coroutine of do_response(subnegotiation_awaitable) once the awaited
\* handler has yielded (opt, subneg_buffer).
write_subnegotiation_reply(s, opt, subneg_buffer) ==
  IF subneg_buffer = <<>>
  THEN [s EXCEPT !.processor.waits = "post", !.processor.coroutine_ec = ""]
  ELSE LET w == async_write_subnegotiation(s.fsm_, opt, subneg_buffer, "")
       IN IF w.ec # ""
          THEN [s EXCEPT !.processor.waits = "post", !.processor.coroutine_ec = w.ec]
          ELSE [s EXCEPT !.writes = Append(@, Write("read", "subnegotiation", w.bytes, None, NoCause)),
                         !.processor.unwritten = TRUE,
                         !.processor.waits = "subnegotiation_write"]

\* The four overloads of input_processor::do_response.
do_response(s, response) ==
  CASE response.kind = "negotiation" ->
         LET w == async_write_negotiation(s.statics, response, "Self", "read", CauseOf(s.last))
         IN [s EXCEPT !.statics = w.statics,
                      !.writes = Append(@, w.write),
                      !.processor.waits = "write"]
    [] response.kind = "ayt" ->
         [s EXCEPT !.writes = Append(@, Write("read", "raw", AytString, None, NoCause)),
                   !.processor.waits = "write"]
    [] response.kind = "subnegotiation" ->
         IF response.outcome = "handler"
           THEN [s EXCEPT !.processor.waits = "subnegotiation_handler",
                          !.processor.coroutine_opt = response.opt]
         ELSE IF response.outcome = "reply"
           THEN write_subnegotiation_reply(s, response.opt, response.reply)
         ELSE [s EXCEPT !.processor.waits = "undefined",
                        !.processor.coroutine_opt = response.opt]
    [] response.kind = "handler" ->
         IF HasValue(response.negotiation)
         THEN LET w == async_write_negotiation(s.statics, Value(response.negotiation),
                                               "use_awaitable", "read", CauseOf(s.last))
              IN [s EXCEPT !.statics = w.statics,
                           !.writes = Append(@, w.write),
                           !.processor.waits = "coroutine_write"]
         ELSE [s EXCEPT !.processor.waits = "handler"]

\* Mutant: the loop goes on to the next byte without handling the response.
SuspendsOnResponse_Never(response) == FALSE

\* `if (response) { ... return; }`: the loop stops at a byte that produced a response.
SuspendsOnResponse(response) == HasValue(response)

\* What the last negotiation command processed by the read pipeline did.
NegotiationRecord(f, byte, r) ==
  [op |-> "process_byte", parser |-> f.current_state_, command |-> f.current_command_,
   opt |-> byte,
   direction |-> IF Value(f.current_command_) \in {WILL, WONT} THEN "remote" ELSE "local",
   before |-> f.option_status_[byte], after |-> r.fsm.option_status_[byte],
   ec |-> r.ec, forward |-> r.forward, response |-> r.response, awaitable |-> None,
   log |-> r.log]

\* What the last subnegotiation closed by IAC SE in the read pipeline was:
\* its option, its payload, and the results of process_byte(SE).
SubnegotiationRecord(f, byte, r) ==
  [op |-> "subnegotiation", parser |-> f.current_state_, command |-> Some(SE),
   opt |-> Value(f.current_option_).id, direction |-> "local",
   before |-> f.option_status_[Value(f.current_option_).id],
   after |-> r.fsm.option_status_[Value(f.current_option_).id],
   ec |-> r.ec, forward |-> r.forward, response |-> r.response, awaitable |-> None,
   log |-> r.log, buffer |-> f.subnegotiation_buffer_]

\* The run after process_byte(byte) returned r: the engine's new state, the
\* record of a negotiation command or of a closed subnegotiation, the
\* history of the reactions.
AfterProcessByte(s, byte, r) ==
  [s EXCEPT !.fsm_ = r.fsm,
            !.processor.processed = Append(@, byte),
            !.last = IF s.fsm_.current_state_ = "OptionNegotiation"
                        /\ HasValue(s.fsm_.current_command_)
                       THEN NegotiationRecord(s.fsm_, byte, r)
                     ELSE IF s.fsm_.current_state_ = "SubnegotiationIAC" /\ byte = SE
                             /\ HasValue(s.fsm_.current_option_)
                       THEN SubnegotiationRecord(s.fsm_, byte, r)
                     ELSE @,
            !.processor.early = @ \/ s.processor.unwritten,
            !.processor.later = @ \/ (s.processor.replies > 0),
            !.processor.unwritten = @ \/ NeedsWrite(r.response)]

\* How the for loop of handle_processor_state_processing is left: "end"
\* (no byte left or the window full), "break" (terminal signal ec) or
\* "suspend" (an asynchronous operation was started), after `consumed` bytes.
LoopExit(s, exit, ec, consumed) == [run |-> s, exit |-> exit, ec |-> ec, consumed |-> consumed]

\* `*write_it_++ = *read_it` for a forwarded byte outside Synch mode.
Forward(s, byte, forward) ==
  IF forward /\ s.context_.urgent_data_state # "has_urgent_data"
  THEN [s EXCEPT !.processor.window = Append(@, byte),
                 !.processor.synch_data = @ \/ s.context_.urgent_data_state = "has_urgent_data"]
  ELSE s

\* Mutant: the bytes processed stay in the raw input buffer.
Consume_Nothing(s, n) == s

\* The raw input buffer with its first n bytes consumed.
Consume(s, n) ==
  [s EXCEPT !.context_.input_side_buffer = SubSeq(@, n + 1, Len(@))]

RECURSIVE ProcessBuffer(_, _)

\* The loop body after the signal handling: s has the forwarded byte,
\* signal_ec is what process_fsm_signals left of the signal.
AfterSignal(s, i, signal_ec, response) ==
  IF signal_ec # ""
    THEN LoopExit(s, "break", signal_ec, i)
  ELSE IF SuspendsOnResponse(response)
    THEN LoopExit(do_response(Consume(s, i), Value(response)), "suspend", "", i)
  ELSE ProcessBuffer(s, i + 1)

\* The loop body for the i-th byte of the raw input buffer, process_byte
\* having returned r and s being the run after it.
LoopBody(s, i, byte, r, sig) ==
  IF r.ec = "abort_output"
  THEN LoopExit(async_send_synch(Consume([s EXCEPT !.context_.output_side_buffer = <<>>,
                                                   !.context_.deferred_processing_signal = r.ec],
                                         i)),
                "suspend", "", i)
  ELSE AfterSignal(Forward(sig.run, byte, r.forward), i, sig.ec, r.response)

Signalled(s, i, byte, r) ==
  LoopBody(s, i, byte, r,
           IF r.ec # "" /\ r.ec # "abort_output" THEN process_fsm_signals(s, r.ec)
           ELSE [run |-> s, ec |-> ""])

Processed(s, i, byte, r) == Signalled(AfterProcessByte(s, byte, r), i, byte, r)

\* The for loop of handle_processor_state_processing from the i-th byte of
\* the raw input buffer.
ProcessBuffer(s, i) ==
  IF i > Len(s.context_.input_side_buffer) \/ Len(s.processor.window) = s.processor.cap
  THEN LoopExit(s, "end", "", i - 1)
  ELSE Processed(s, i, s.context_.input_side_buffer[i],
                 process_byte(s.fsm_, s.context_.input_side_buffer[i]))

RECURSIVE handle_processor_state_initializing(_)
RECURSIVE handle_processor_state_reading(_, _, _)
RECURSIVE handle_processor_state_processing(_, _)

handle_processor_state_initializing(s) ==
  IF Len(s.context_.input_side_buffer) = 0
  THEN IF s.context_.deferred_transport_error # ""
       THEN complete([s EXCEPT !.processor.state_ = "reading",
                               !.context_.deferred_transport_error = ""],
                     s.context_.deferred_transport_error, 0)
       ELSE launch_wait_for_urgent_data([s EXCEPT !.processor.state_ = "reading",
                                                  !.processor.waits = "read"])
  ELSE handle_processor_state_reading([s EXCEPT !.processor.state_ = "reading"], "", <<>>)

\* `read` stands for the bytes the transport read put into the prepared
\* block; its length is bytes_transferred.
handle_processor_state_reading(s, ec_in, read) ==
  IF Len(s.context_.input_side_buffer) + Len(read) = 0
  THEN complete(s, ec_in, 0)
  ELSE handle_processor_state_processing(
         [s EXCEPT !.context_.input_side_buffer = @ \o read,
                   !.processor.arrived = @ \o read,
                   !.context_.deferred_transport_error = IF ec_in # "" THEN ec_in ELSE @,
                   !.processor.window = <<>>,
                   !.processor.state_ = "processing"], "")

\* Mutant: a pass that wrote nothing into the window completes the read.
FinishProcessing_CompletesEmpty(s, ec, consumed) ==
  LET result_ec == IF ec = "" THEN s.context_.deferred_transport_error ELSE ec
      t == Consume([s EXCEPT !.context_.deferred_transport_error = IF ec = "" THEN "" ELSE @],
                   consumed)
  IN complete(t, result_ec, Len(s.processor.window))

\* The end of handle_processor_state_processing, the loop left with the
\* terminal signal ec (or none) after `consumed` bytes.
FinishProcessing(s, ec, consumed) ==
  LET result_ec == IF ec = "" THEN s.context_.deferred_transport_error ELSE ec
      t == Consume([s EXCEPT !.context_.deferred_transport_error = IF ec = "" THEN "" ELSE @],
                   consumed)
  IN IF result_ec = "" /\ Len(s.processor.window) = 0
     THEN handle_processor_state_initializing(t)
     ELSE complete(t, result_ec, Len(s.processor.window))

AfterLoop(loop) ==
  IF loop.exit = "suspend" THEN loop.run
  ELSE FinishProcessing(loop.run, loop.ec, loop.consumed)

\* Entered with the deferred processing signal already taken out of the context.
ProcessingLoop(s, signal) ==
  AfterLoop(IF signal # "" THEN LoopExit(s, "break", signal, 0) ELSE ProcessBuffer(s, 1))

handle_processor_state_processing(s, ec_in) ==
  ProcessingLoop([(IF ec_in # "" THEN process_write_error(s, ec_in) ELSE s)
                    EXCEPT !.context_.deferred_processing_signal = "",
                           !.processor.waits = "none"],
                 s.context_.deferred_processing_signal)

\* input_processor::operator()
operator_call(s, ec_in, read) ==
  CASE s.processor.state_ = "initializing" -> handle_processor_state_initializing(s)
    [] s.processor.state_ = "reading" -> handle_processor_state_reading(s, ec_in, read)
    [] s.processor.state_ = "processing" -> handle_processor_state_processing(s, ec_in)
    [] OTHER -> s

(***************************************************************************)
(* State                                                                   *)
(***************************************************************************)
VARIABLES
  peer,    \* two engines, "A" and "B", joined by two ordered channels
  chan,    \* chan[p]: the negotiation frames in flight towards peer p
  calls,   \* application request_option/disable_option calls made so far
  sent,    \* negotiation frames put on either channel so far
  fsm_,    \* stream::fsm_, the stream's ProtocolFSM
  last,    \* the last engine operation: its arguments, the state before, its results
  context_,     \* stream::context_
  processor,    \* the input_processor of the async_read_some in progress, or of the last one
  app,          \* the application's write-side operation in progress, or the last one
  outstanding,  \* the writes handed to the transport and not yet completed
  buf,          \* the static array of each instantiation of async_write_negotiation
  wire,         \* the last write the transport completed
  incoming,     \* bytes the peer has sent that no transport read has delivered yet
  tokens,       \* tokens the peer has sent so far
  oob_receive,  \* a zero-byte out-of-band receive is outstanding on the transport
  codec,        \* a sender's write_some calls and the receiving parser they are fed to
  threads       \* threads[t]: the urgent_data_tracker call thread t is in, if any

streamVars == <<context_, processor, app, outstanding, buf, wire, incoming, tokens, oob_receive>>
vars == <<peer, chan, calls, sent, fsm_, last, streamVars, codec, threads>>

\* The registry the stream is configured with: ECHO may be enabled on the
\* remote side only, SUPPRESS_GO_AHEAD on the local side only; every other
\* option is unregistered.
StreamRegistry ==
  [id \in Byte |->
     IF id = ECHO THEN Some(Option(ECHO, FALSE, TRUE, FALSE, MaxSubnegotiationSize))
     ELSE IF id = SUPPRESS_GO_AHEAD
       THEN Some(Option(SUPPRESS_GO_AHEAD, TRUE, FALSE, FALSE, MaxSubnegotiationSize))
     ELSE None]

NoLast ==
  [op |-> "none", parser |-> "Normal", command |-> None, opt |-> NUL, direction |-> "local",
   before |-> OptionStatusRecord, after |-> OptionStatusRecord, ec |-> "", forward |-> FALSE,
   response |-> None, awaitable |-> None, log |-> ""]

NoApp ==
  [op |-> "none", pc |-> "idle", opt |-> NUL, direction |-> "local", enable |-> FALSE,
   before |-> NoStatus, after |-> NoStatus, ec |-> "", writes |-> 0, bytes |-> <<>>,
   future |-> FALSE, calls |-> 0]

NoWrite == Write("none", "none", <<>>, None, NoCause)

\* Values of the variables a specification does not use.
StreamIdle ==
  /\ context_ = NewContext
  /\ processor = NoProcessor
  /\ app = NoApp
  /\ outstanding = <<>>
  /\ buf = [t \in TokenTypes |-> None]
  /\ wire = NoWrite
  /\ incoming = <<>>
  /\ tokens = 0
  /\ oob_receive = FALSE

QIdle ==
  /\ peer = [p \in {"A", "B"} |-> NewFSM(StreamRegistry)]
  /\ chan = [p \in {"A", "B"} |-> <<>>]
  /\ calls = 0
  /\ sent = 0

FsmIdle ==
  /\ fsm_ = NewFSM(StreamRegistry)
  /\ last = NoLast

\* An engine whose BINARY option is enabled in `direction` when `binary`.
WithBinary(f, direction, binary) ==
  IF binary THEN SetStatus(f, BINARY, enable(f.option_status_[BINARY], direction)) ELSE f

\* A sending stream and the parser of the peer it writes to, before any write:
\* data is what the application has passed to write_some so far, wire what
\* the transport has been handed, pending the part of wire the receiver has
\* not processed, delivered what the receiver has forwarded to its
\* application, steps the record of every process_byte call of the receiver.
NewCodec(local_binary, remote_binary) ==
  [local_binary |-> local_binary, remote_binary |-> remote_binary,
   sender |-> WithBinary(NewFSM(StreamRegistry), "local", local_binary),
   receiver |-> WithBinary(NewFSM(StreamRegistry), "remote", remote_binary),
   data |-> <<>>, wire |-> <<>>, pending |-> <<>>, delivered |-> <<>>, steps |-> <<>>,
   writes |-> 0]

CodecIdle == codec = NewCodec(FALSE, FALSE)

\* A thread that is in no call of the urgent_data_tracker. In a call, pc is
\* the statement the thread is at ("load" or "cas"); expected_state,
\* desired_state and success are the locals of the call, log what it has
\* passed to log_error; calls counts the calls the thread has returned from
\* and failed the compare-exchanges of the current call that did not succeed.
NoTrackerCall ==
  [pc |-> "idle", op |-> "none", expected_state |-> "no_urgent_data",
   desired_state |-> "no_urgent_data", success |-> FALSE, log |-> <<>>, calls |-> 0, failed |-> 0]

ThreadsIdle == threads = [t \in {"oob", "read"} |-> NoTrackerCall]

(***************************************************************************)
(* The engine alone: every byte and every application call, in any order   *)
(***************************************************************************)
\* Inbound bytes of the negotiation language and the option ids of the model.
NegotiationBytes == {IAC, WILL, WONT, DO, DONT, ECHO, UNREGISTERED}
NegotiatedOptions == {ECHO, UNREGISTERED}

\* The registries the engine is tried with: ECHO registered with each
\* combination of supports-local and supports-remote, everything else unregistered.
FsmRegistries ==
  { [id \in Byte |-> IF id = ECHO THEN Some(Option(ECHO, sl, sr, FALSE, MaxSubnegotiationSize))
                     ELSE None] : sl \in BOOLEAN, sr \in BOOLEAN }

DirectionOf(command) ==
  IF HasValue(command) /\ Value(command) \in {WILL, WONT} THEN "remote" ELSE "local"

FsmInit ==
  /\ fsm_ \in {NewFSM(registry) : registry \in FsmRegistries}
  /\ last = NoLast
  /\ QIdle
  /\ StreamIdle
  /\ CodecIdle
  /\ ThreadsIdle

FsmProcessByte(byte) ==
  LET r == process_byte(fsm_, byte)
      direction == DirectionOf(fsm_.current_command_)
  IN /\ fsm_' = r.fsm
     /\ last' = [op |-> "process_byte", parser |-> fsm_.current_state_,
                 command |-> fsm_.current_command_, opt |-> byte, direction |-> direction,
                 before |-> fsm_.option_status_[byte], after |-> r.fsm.option_status_[byte],
                 ec |-> r.ec, forward |-> r.forward, response |-> r.response,
                 awaitable |-> None, log |-> r.log]
     /\ UNCHANGED <<peer, chan, calls, sent, streamVars, codec, threads>>

FsmRequestOption(opt, direction) ==
  LET r == request_option(fsm_, opt, direction)
  IN /\ fsm_' = r.fsm
     /\ last' = [op |-> "request_option", parser |-> fsm_.current_state_,
                 command |-> fsm_.current_command_, opt |-> opt, direction |-> direction,
                 before |-> fsm_.option_status_[opt], after |-> r.fsm.option_status_[opt],
                 ec |-> r.ec, forward |-> FALSE, response |-> r.response,
                 awaitable |-> None, log |-> r.log]
     /\ UNCHANGED <<peer, chan, calls, sent, streamVars, codec, threads>>

FsmDisableOption(opt, direction) ==
  LET r == disable_option(fsm_, opt, direction)
  IN /\ fsm_' = r.fsm
     /\ last' = [op |-> "disable_option", parser |-> fsm_.current_state_,
                 command |-> fsm_.current_command_, opt |-> opt, direction |-> direction,
                 before |-> fsm_.option_status_[opt], after |-> r.fsm.option_status_[opt],
                 ec |-> r.ec, forward |-> FALSE, response |-> r.response,
                 awaitable |-> r.awaitable, log |-> r.log]
     /\ UNCHANGED <<peer, chan, calls, sent, streamVars, codec, threads>>

FsmNext ==
  \/ \E byte \in NegotiationBytes : FsmProcessByte(byte)
  \/ \E opt \in NegotiatedOptions, direction \in Dirs : FsmRequestOption(opt, direction)
  \/ \E opt \in NegotiatedOptions, direction \in Dirs : FsmDisableOption(opt, direction)

SpecFsm == FsmInit /\ [][FsmNext]_vars

IsNegotiation ==
  /\ last.op = "process_byte"
  /\ last.parser = "OptionNegotiation"
  /\ HasValue(last.command)

\* Section 4.3, inbound table: the next (state, queue bit), the reply
\* ("enable", "disable" or "none") and the handler fired.
InboundTable(state, queue, enable_request, supported) ==
  LET row(s, q, reply, handler) == [state |-> s, queue |-> q, reply |-> reply, handler |-> handler]
  IN CASE state = "NO" /\ enable_request /\ supported -> row("YES", FALSE, "enable", "enablement")
       [] state = "NO" /\ enable_request /\ ~supported -> row("NO", FALSE, "disable", "none")
       [] state = "NO" /\ ~enable_request -> row("NO", FALSE, "none", "none")
       [] state = "YES" /\ enable_request -> row("YES", FALSE, "none", "none")
       [] state = "YES" /\ ~enable_request -> row("NO", FALSE, "disable", "disablement")
       [] state = "WANTYES" /\ ~queue /\ enable_request -> row("YES", FALSE, "none", "enablement")
       [] state = "WANTYES" /\ ~queue /\ ~enable_request -> row("NO", FALSE, "none", "none")
       [] state = "WANTYES" /\ queue /\ enable_request -> row("WANTNO", FALSE, "disable", "none")
       [] state = "WANTYES" /\ queue /\ ~enable_request -> row("NO", FALSE, "none", "none")
       [] state = "WANTNO" /\ ~queue /\ enable_request -> row("NO", FALSE, "none", "none")
       [] state = "WANTNO" /\ ~queue /\ ~enable_request -> row("NO", FALSE, "none", "none")
       [] state = "WANTNO" /\ queue /\ enable_request -> row("YES", FALSE, "none", "enablement")
       [] state = "WANTNO" /\ queue /\ ~enable_request -> row("WANTYES", FALSE, "enable", "none")

\* The frame of a reply of the table, for the option and direction negotiated.
TableFrame(reply, direction, opt) ==
  CASE reply = "none" -> None
    [] reply = "enable" -> Some(<<IAC, IF direction = "remote" THEN DO ELSE WILL, opt>>)
    [] reply = "disable" -> Some(<<IAC, IF direction = "remote" THEN DONT ELSE WONT, opt>>)

HandlerOf(response) ==
  IF HasValue(response) /\ Value(response).kind = "handler"
  THEN <<Value(response).handler, Value(response).opt, Value(response).direction>>
  ELSE <<"none">>

TableHandler(handler, direction, opt) ==
  IF handler = "none" THEN <<"none">> ELSE <<handler, opt, direction>>

\* C2: for a registered option in any of the six Q states and either
\* direction, an inbound WILL/DO (enable request) or WONT/DONT (disable
\* request) yields exactly the next state, the reply frame (or none) and the
\* handler invocation (on-enable, on-disable or none) of the inbound table
\* of section 4.3, and leaves the option's other direction alone.
C2_InboundTable ==
  (IsNegotiation /\ HasValue(get(fsm_.registered_options, last.opt))) =>
    LET d == IF Value(last.command) \in {WILL, WONT} THEN "remote" ELSE "local"
        o == IF d = "remote" THEN "local" ELSE "remote"
        opt == Value(get(fsm_.registered_options, last.opt))
        supported == IF d = "remote" THEN opt.supports_remote ELSE opt.supports_local
        row == InboundTable(last.before[d].state, last.before[d].queue,
                            Value(last.command) \in {WILL, DO}, supported)
    IN /\ last.after[d] = [state |-> row.state, queue |-> row.queue]
       /\ last.after[o] = last.before[o]
       /\ FrameOf(last.response) = TableFrame(row.reply, d, last.opt)
       /\ HandlerOf(last.response) = TableHandler(row.handler, d, last.opt)
       /\ fsm_.current_state_ = "Normal"

\* C2 witness: an inbound WONT met the remote side in WANTNO/OPPOSITE and
\* was answered with DO, the queued request re-emitted.
C2_Witness ==
  /\ IsNegotiation
  /\ Value(last.command) = WONT
  /\ last.opt = ECHO
  /\ last.before["remote"] = [state |-> "WANTNO", queue |-> TRUE]
  /\ last.after["remote"] = [state |-> "WANTYES", queue |-> FALSE]
  /\ FrameOf(last.response) = Some(<<IAC, DO, ECHO>>)

\* C5: in every reachable state, for every option and direction, the queue
\* bit is EMPTY whenever the state is NO or YES.
C5_QueueInvariant ==
  \A id \in Byte : \A d \in Dirs :
    fsm_.option_status_[id][d].state \in {"NO", "YES"} => ~fsm_.option_status_[id][d].queue

\* C5 witness: an operation found the queue bit OPPOSITE and left the option in NO or YES.
C5_Witness ==
  /\ last.op = "process_byte"
  /\ \E d \in Dirs : /\ last.before[d].queue
                     /\ last.after[d].state \in {"NO", "YES"}
                     /\ ~last.after[d].queue

(***************************************************************************)
(* Two engines negotiating one option over reliable ordered channels       *)
(***************************************************************************)
\* Bound on the application calls of both peers together.
MaxCalls == 4
\* No run reaches this many frames; the counter stops there.
MsgCap == 3 * MaxCalls + 2

Peers == {"A", "B"}
Other(p) == IF p = "A" THEN "B" ELSE "A"
\* A's local side of the option is B's remote side.
DirOf(p) == IF p = "A" THEN "local" ELSE "remote"

\* The registries a peer may be configured with for the negotiated option.
Registries ==
  { [id \in Byte |-> None],
    [id \in Byte |-> IF id = ECHO THEN Some(Option(ECHO, TRUE, TRUE, FALSE, MaxSubnegotiationSize)) ELSE None],
    [id \in Byte |-> IF id = ECHO THEN Some(Option(ECHO, FALSE, FALSE, FALSE, MaxSubnegotiationSize)) ELSE None] }

\* process_byte applied to the three bytes of one frame.
FeedFrame(f, frame) ==
  process_byte(process_byte(process_byte(f, frame[1]).fsm, frame[2]).fsm, frame[3])

QInit ==
  /\ FsmIdle
  /\ StreamIdle
  /\ CodecIdle
  /\ ThreadsIdle
  /\ peer \in [Peers -> {NewFSM(r) : r \in Registries}]
  /\ chan = [p \in Peers |-> <<>>]
  /\ calls = 0
  /\ sent = 0

Emit(p, f, response) ==
  LET frame == FrameOf(response)
  IN /\ peer' = [peer EXCEPT ![p] = f]
     /\ IF HasValue(frame)
        THEN /\ chan' = [chan EXCEPT ![Other(p)] = Append(@, Value(frame))]
             /\ sent' = sent + 1
        ELSE UNCHANGED <<chan, sent>>

QRequest(p) ==
  /\ calls < MaxCalls
  /\ sent < MsgCap
  /\ calls' = calls + 1
  /\ UNCHANGED <<fsm_, last, streamVars, codec, threads>>
  /\ LET r == request_option(peer[p], ECHO, DirOf(p))
     IN Emit(p, r.fsm, r.response)

QDisable(p) ==
  /\ calls < MaxCalls
  /\ sent < MsgCap
  /\ calls' = calls + 1
  /\ UNCHANGED <<fsm_, last, streamVars, codec, threads>>
  /\ LET r == disable_option(peer[p], ECHO, DirOf(p))
     IN Emit(p, r.fsm, r.response)

QDeliver(p) ==
  /\ chan[p] # <<>>
  /\ sent < MsgCap
  /\ UNCHANGED <<calls, fsm_, last, streamVars, codec, threads>>
  /\ LET r == FeedFrame(peer[p], Head(chan[p]))
         frame == FrameOf(r.response)
     IN /\ peer' = [peer EXCEPT ![p] = r.fsm]
        /\ sent' = IF HasValue(frame) THEN sent + 1 ELSE sent
        /\ chan' = [q \in Peers |->
                      IF q = p THEN Tail(chan[p])
                      ELSE IF HasValue(frame) THEN Append(chan[q], Value(frame))
                      ELSE chan[q]]

QNext == \E p \in Peers : QRequest(p) \/ QDisable(p) \/ QDeliver(p)

SpecQ == QInit /\ [][QNext]_vars
\* Reliable channels: a frame in flight is eventually delivered.
SpecQFair == SpecQ /\ WF_vars(QDeliver("A")) /\ WF_vars(QDeliver("B"))

QState(p) == peer[p].option_status_[ECHO][DirOf(p)]
Quiescent == chan["A"] = <<>> /\ chan["B"] = <<>>
Consistent ==
  /\ QState("A").state = QState("B").state
  /\ QState("A").state \in {"NO", "YES"}
  /\ ~QState("A").queue /\ ~QState("B").queue

MaxTokens == 2
MaxAppCalls == 2
MaxWindow == 1

\* What the peer sends: a data byte, IAC AYT, and every negotiation command
\* for a registered and for an unregistered option.
PeerTokens ==
  {<<DATA>>, <<IAC, AYT>>}
  \cup {<<IAC, cmd, id>> : cmd \in {WILL, WONT, DO, DONT}, id \in {ECHO, UNREGISTERED}}

\* The option the application negotiates, and the frames it writes itself.
AppOptions == {ECHO}

Init ==
  /\ QIdle
  /\ FsmIdle
  /\ StreamIdle
  /\ CodecIdle
  /\ ThreadsIdle

\* What an invocation of the input_processor leaves behind, `rest` being
\* the writes that were outstanding and stay so.
Commit(r, rest) ==
  /\ context_' = r.context_
  /\ fsm_' = r.fsm_
  /\ processor' = r.processor
  /\ buf' = r.statics
  /\ last' = r.last
  /\ oob_receive' = (oob_receive \/ r.oob)
  /\ outstanding' = rest \o r.writes

PeerSend(token) ==
  /\ tokens < MaxTokens
  /\ tokens' = tokens + 1
  /\ incoming' = incoming \o token
  /\ UNCHANGED <<codec, threads, peer, chan, calls, sent, fsm_, last, context_, processor, app,
                 outstanding, buf, wire, oob_receive>>

\* stream::async_read_some: async_compose constructs the input_processor and
\* invokes it.
AsyncReadSome(cap) ==
  /\ processor.state_ \in {"none", "done"}
  /\ Commit(operator_call(Run(context_, fsm_,
                              [NewProcessor(cap) EXCEPT !.arrived = context_.input_side_buffer],
                              buf, last), "", <<>>),
            outstanding)
  /\ UNCHANGED <<codec, threads, peer, chan, calls, sent, app, wire, incoming, tokens>>

\* The transport read completes with the first n bytes in flight.
TransportRead(n) ==
  /\ processor.waits = "read"
  /\ n \in 1 .. Len(incoming)
  /\ Commit(operator_call(Run(context_, fsm_, processor, buf, last), "",
                          SubSeq(incoming, 1, n)),
            outstanding)
  /\ incoming' = SubSeq(incoming, n + 1, Len(incoming))
  /\ UNCHANGED <<codec, threads, peer, chan, calls, sent, app, wire, tokens>>

\* The steps of async_send_synch after the first: urgent NUL, NUL, IAC DM.
SynchWrite(step) ==
  CASE step = 2 -> Write("read", "urgent_nul", <<NUL>>, None, NoCause)
    [] step = 3 -> Write("read", "nul", <<NUL>>, None, NoCause)
    [] OTHER -> Write("read", "command", <<IAC, DM>>, None, NoCause)

\* Mutant: the handler passed to async_send_synch runs when the first NUL
\* has been sent.
ReadWriteComplete_AfterFirstNul(s) ==
  IF s.processor.waits = "synch"
  THEN operator_call([s EXCEPT !.processor.synch_step = 0], "", <<>>)
  ELSE operator_call([s EXCEPT !.processor.unwritten = FALSE, !.processor.replies = @ + 1],
                     "", <<>>)

\* The completion of a write of the read pipeline: the handler of the write
\* runs, and through it the coroutine or the input_processor that waits.
ReadWriteComplete(s) ==
  IF s.processor.waits = "synch"
  THEN IF s.processor.synch_step < 4
       THEN [s EXCEPT !.writes = <<SynchWrite(s.processor.synch_step + 1)>>,
                      !.processor.synch_step = @ + 1]
       ELSE operator_call([s EXCEPT !.processor.synch_step = 0], "", <<>>)
  ELSE IF s.processor.waits = "coroutine_write"
    THEN [s EXCEPT !.processor.unwritten = FALSE, !.processor.replies = @ + 1,
                   !.processor.waits = "handler"]
  ELSE operator_call([s EXCEPT !.processor.unwritten = FALSE, !.processor.replies = @ + 1],
                     "", <<>>)

Remove(seq, i) == SubSeq(seq, 1, i - 1) \o SubSeq(seq, i + 1, Len(seq))

\* The transport completes the i-th outstanding write.
WriteComplete(i) ==
  /\ i \in DOMAIN outstanding
  /\ wire' = outstanding[i]
  /\ IF outstanding[i].owner = "read"
     THEN /\ Commit(ReadWriteComplete(Run(context_, fsm_, processor, buf, last)),
                    Remove(outstanding, i))
          /\ UNCHANGED app
     ELSE /\ outstanding' = Remove(outstanding, i)
          /\ app' = [app EXCEPT !.pc = IF app.future THEN "handler" ELSE "done"]
          /\ UNCHANGED <<fsm_, last, context_, processor, buf, oob_receive>>
  /\ UNCHANGED <<codec, threads, peer, chan, calls, sent, incoming, tokens>>

\* Payloads an option handler may answer a subnegotiation with.
SubnegotiationReplies == {<<>>, <<DATA>>}

\* The coroutine of do_response goes on after a suspension: unless it has
\* started a write, it returns and its completion invokes the input_processor.
CoroutineResumed(s) ==
  IF s.processor.waits = "subnegotiation_write" THEN s
  ELSE operator_call([s EXCEPT !.processor.coroutine_ec = ""], s.processor.coroutine_ec, <<>>)

\* The coroutine spawned by do_response resumes: the awaited handler future
\* completes (yielding `reply` for a subnegotiation), or its posted
\* completion runs.
ReadHandlerComplete(reply) ==
  /\ processor.waits \in {"handler", "post", "subnegotiation_handler", "undefined"}
  /\ processor.waits \in {"handler", "post"} => reply = <<>>
  /\ Commit(CoroutineResumed(
              IF processor.waits \in {"handler", "post"}
              THEN Run(context_, fsm_, processor, buf, last)
              ELSE write_subnegotiation_reply(Run(context_, fsm_, processor, buf, last),
                                              processor.coroutine_opt, reply)),
            outstanding)
  /\ UNCHANGED <<codec, threads, peer, chan, calls, sent, app, wire, incoming, tokens>>

\* The record of an application call: its arguments, the Q status of the
\* option and direction before and after the engine call, the error code.
AppCall(op, opt, direction, enable_, f, ec) ==
  [op |-> op, pc |-> "done", opt |-> opt, direction |-> direction, enable |-> enable_,
   before |-> fsm_.option_status_[opt][direction],
   after |-> f.option_status_[opt][direction],
   ec |-> ec, writes |-> 0, bytes |-> <<>>, future |-> FALSE, calls |-> app.calls + 1]

AppReady ==
  /\ app.pc \in {"idle", "done"}
  /\ app.calls < MaxAppCalls

\* The application's call hands one write to the transport.
AppWrite(call, w) ==
  /\ outstanding' = Append(outstanding, w)
  /\ app' = [call EXCEPT !.pc = "writing", !.writes = 1, !.bytes = w.bytes]

\* stream::async_request_option
AsyncRequestOption(opt, direction) ==
  /\ AppReady
  /\ LET r == request_option(fsm_, opt, direction)
         call == AppCall("request_option", opt, direction, TRUE, r.fsm, r.ec)
     IN /\ fsm_' = r.fsm
        /\ IF r.ec # "" \/ ~HasValue(r.response)
           THEN /\ app' = call
                /\ UNCHANGED <<outstanding, buf>>
           ELSE LET w == async_write_negotiation(buf, Value(r.response), "CompletionToken",
                                                 "app", NoCause)
                IN /\ buf' = w.statics
                   /\ AppWrite(call, w.write)
  /\ UNCHANGED <<codec, threads, peer, chan, calls, sent, last, context_, processor, wire, incoming,
                 tokens, oob_receive>>

\* stream::async_disable_option: the spawned coroutine writes the frame with
\* asio::use_awaitable and awaits the handler's future after that write.
AsyncDisableOption(opt, direction) ==
  /\ AppReady
  /\ LET r == disable_option(fsm_, opt, direction)
         call == [AppCall("disable_option", opt, direction, FALSE, r.fsm, r.ec)
                    EXCEPT !.future = HasValue(r.awaitable)]
     IN /\ fsm_' = r.fsm
        /\ IF r.ec # "" \/ (~HasValue(r.response) /\ ~HasValue(r.awaitable))
             THEN /\ app' = call
                  /\ UNCHANGED <<outstanding, buf>>
           ELSE IF HasValue(r.response)
             THEN LET w == async_write_negotiation(buf, Value(r.response), "use_awaitable",
                                                   "app", NoCause)
                  IN /\ buf' = w.statics
                     /\ AppWrite(call, w.write)
           ELSE /\ app' = [call EXCEPT !.pc = "handler"]
                /\ UNCHANGED <<outstanding, buf>>
  /\ UNCHANGED <<codec, threads, peer, chan, calls, sent, last, context_, processor, wire, incoming,
                 tokens, oob_receive>>

\* The handler future awaited by async_disable_option completes.
DisableHandlerComplete ==
  /\ app.pc = "handler"
  /\ app' = [app EXCEPT !.pc = "done"]
  /\ UNCHANGED <<codec, threads, peer, chan, calls, sent, fsm_, last, context_, processor, outstanding,
                 buf, wire, incoming, tokens, oob_receive>>

\* stream::async_write_negotiation called by the application.
AsyncWriteNegotiation(direction, enable_, opt) ==
  /\ AppReady
  /\ LET call == AppCall("write_negotiation", opt, direction, enable_, fsm_, "")
         w == async_write_negotiation(buf, NegotiationResponse(direction, enable_, opt),
                                      "CompletionToken", "app", NoCause)
     IN /\ buf' = w.statics
        /\ AppWrite(call, w.write)
  /\ UNCHANGED <<codec, threads, peer, chan, calls, sent, fsm_, last, context_, processor, wire, incoming,
                 tokens, oob_receive>>

\* stream::async_write_raw called by the application with one data byte.
AsyncWriteRaw ==
  /\ AppReady
  /\ AppWrite(AppCall("write_raw", NUL, "local", FALSE, fsm_, ""),
              Write("app", "raw", <<DATA>>, None, NoCause))
  /\ UNCHANGED <<codec, threads, peer, chan, calls, sent, fsm_, last, context_, processor, buf, wire,
                 incoming, tokens, oob_receive>>

Next ==
  \/ \E token \in PeerTokens : PeerSend(token)
  \/ \E cap \in 1 .. MaxWindow : AsyncReadSome(cap)
  \/ \E n \in 1 .. Len(incoming) : TransportRead(n)
  \/ \E i \in DOMAIN outstanding : WriteComplete(i)
  \/ \E reply \in SubnegotiationReplies : ReadHandlerComplete(reply)
  \/ \E opt \in AppOptions, direction \in Dirs : AsyncRequestOption(opt, direction)
  \/ \E opt \in AppOptions, direction \in Dirs : AsyncDisableOption(opt, direction)
  \/ \E opt \in AppOptions, direction \in Dirs, enable_ \in BOOLEAN :
       AsyncWriteNegotiation(direction, enable_, opt)
  \/ AsyncWriteRaw
  \/ DisableHandlerComplete

Spec == Init /\ [][Next]_vars

(***************************************************************************)
(* Properties of the stream                                                *)
(***************************************************************************)
Registered(id) == HasValue(get(fsm_.registered_options, id))

\* The command of a negotiation frame: DO for remote+enable, DONT for
\* remote+disable, WILL for local+enable, WONT for local+disable.
CommandFor(direction, enable_) ==
  CASE direction = "remote" /\ enable_ -> DO
    [] direction = "remote" /\ ~enable_ -> DONT
    [] direction = "local" /\ enable_ -> WILL
    [] direction = "local" /\ ~enable_ -> WONT

\* Section 4.3, outbound table for request_option.
RequestTable(state, queue) ==
  CASE state = "NO" -> [state |-> "WANTYES", queue |-> FALSE]
    [] state = "WANTYES" /\ queue -> [state |-> "WANTYES", queue |-> FALSE]
    [] state = "WANTNO" /\ ~queue -> [state |-> "WANTNO", queue |-> TRUE]
    [] OTHER -> [state |-> state, queue |-> queue]

\* The mirror image for disable_option.
DisableTable(state, queue) ==
  CASE state = "YES" -> [state |-> "WANTNO", queue |-> FALSE]
    [] state = "WANTNO" /\ queue -> [state |-> "WANTNO", queue |-> FALSE]
    [] state = "WANTYES" /\ ~queue -> [state |-> "WANTYES", queue |-> TRUE]
    [] OTHER -> [state |-> state, queue |-> queue]

AppWriteOutstanding == \E i \in DOMAIN outstanding : outstanding[i].owner = "app"
ReadWriteOutstanding == \E i \in DOMAIN outstanding : outstanding[i].owner = "read"

\* C3: request_option on a registered option follows the outbound table and
\* reports success; from NO it puts exactly one frame on the transport, the
\* enable request IAC WILL id (local) or IAC DO id (remote) of its own
\* arguments; from every other state it writes nothing.
C3_RequestOption ==
  (app.op = "request_option" /\ Registered(app.opt)) =>
    /\ app.ec = ""
    /\ app.after = RequestTable(app.before.state, app.before.queue)
    /\ IF app.before.state = "NO"
       THEN /\ app.writes = 1
            /\ app.bytes = <<IAC, CommandFor(app.direction, TRUE), app.opt>>
       ELSE app.writes = 0

\* The state-machine part of C3 alone, without the bytes of the frame.
C3_TableOnly ==
  (app.op = "request_option" /\ Registered(app.opt)) =>
    /\ app.ec = ""
    /\ app.after = RequestTable(app.before.state, app.before.queue)
    /\ app.writes = IF app.before.state = "NO" THEN 1 ELSE 0

\* C4: disable_option on a registered option mirrors request_option; from YES
\* it moves to WANTNO/EMPTY, puts exactly one frame on the transport, the
\* disable request IAC WONT id (local) or IAC DONT id (remote), and returns
\* the on-disable future, awaited only once that write has completed; from
\* the other states it writes nothing and returns no future.
C4_DisableOption ==
  (app.op = "disable_option" /\ Registered(app.opt)) =>
    /\ app.ec = ""
    /\ app.after = DisableTable(app.before.state, app.before.queue)
    /\ IF app.before.state = "YES"
       THEN /\ app.writes = 1
            /\ app.bytes = <<IAC, CommandFor(app.direction, FALSE), app.opt>>
            /\ app.future
            /\ app.pc = "writing" <=> AppWriteOutstanding
            /\ app.pc \in {"writing", "handler", "done"}
       ELSE /\ app.writes = 0
            /\ ~app.future

\* The state-machine and ordering part of C4 alone, without the bytes of the frame.
C4_TableOnly ==
  (app.op = "disable_option" /\ Registered(app.opt)) =>
    /\ app.ec = ""
    /\ app.after = DisableTable(app.before.state, app.before.queue)
    /\ IF app.before.state = "YES"
       THEN /\ app.writes = 1
            /\ app.future
            /\ app.pc = "writing" <=> AppWriteOutstanding
       ELSE /\ app.writes = 0
            /\ ~app.future

\* The read pipeline has written its reply to the inbound negotiation `command`.
Replied(command) ==
  /\ wire.owner = "read"
  /\ wire.kind = "negotiation"
  /\ wire.cause.command = command

\* C6: an inbound IAC WILL id for an option whose remote state is NO, once
\* the reply is written, has left the option in YES with IAC DO id on the
\* wire if the option is registered and supports-remote, and otherwise in NO
\* with IAC DONT id on the wire.
C6_WillFromNo ==
  (Replied(WILL) /\ wire.cause.before = NoStatus) =>
    LET id == wire.cause.opt
    IN IF Registered(id) /\ Value(get(fsm_.registered_options, id)).supports_remote
       THEN wire.cause.after.state = "YES" /\ wire.bytes = <<IAC, DO, id>>
       ELSE wire.cause.after.state = "NO" /\ wire.bytes = <<IAC, DONT, id>>

\* The state part of C6 alone, with the frame the engine asked for.
C6_EngineOnly ==
  (Replied(WILL) /\ wire.cause.before = NoStatus) =>
    LET id == wire.cause.opt
    IN IF Registered(id) /\ Value(get(fsm_.registered_options, id)).supports_remote
       THEN wire.cause.after.state = "YES" /\ wire.response = Some(NegotiationResponse("remote", TRUE, id))
       ELSE wire.cause.after.state = "NO" /\ wire.response = Some(NegotiationResponse("remote", FALSE, id))

\* C7: an inbound WILL or DO naming an unregistered option is answered with
\* IAC DONT id or IAC WONT id for the same id; an inbound WONT or DONT naming
\* one produces no frame; neither creates or changes an option status.
C7_UnregisteredRefused ==
  /\ (last.op = "process_byte" /\ HasValue(last.command) /\ ~Registered(last.opt)) =>
       /\ last.after = last.before
       /\ fsm_.option_status_[last.opt] = OptionStatusRecord
       /\ Value(last.command) \in {WONT, DONT} => ~HasValue(last.response)
       /\ Value(last.command) \in {WILL, DO} => HasValue(FrameOf(last.response))
  /\ \A command \in {WILL, DO} :
       (Replied(command) /\ ~Registered(wire.cause.opt)) =>
         wire.bytes = <<IAC, IF command = WILL THEN DONT ELSE WONT, wire.cause.opt>>

\* The engine's part of C7 alone: the refusal it asks the stream to write.
C7_EngineOnly ==
  /\ (last.op = "process_byte" /\ HasValue(last.command) /\ ~Registered(last.opt)) =>
       /\ last.after = last.before
       /\ fsm_.option_status_[last.opt] = OptionStatusRecord
       /\ Value(last.command) \in {WONT, DONT} => ~HasValue(last.response)
       /\ Value(last.command) \in {WILL, DO} =>
            FrameOf(last.response)
              = Some(<<IAC, IF Value(last.command) = WILL THEN DONT ELSE WONT, last.opt>>)

C9_SingleWriter == Len(outstanding) <= 1

\* C10: every negotiation frame handed to the transport, by the application
\* or as a reply of the read pipeline, is IAC, cmd, id for the direction,
\* enable flag and id of that call's own argument.
C10_FrameOfOwnArguments ==
  \A i \in DOMAIN outstanding :
    outstanding[i].kind = "negotiation" =>
      LET response == Value(outstanding[i].response)
      IN outstanding[i].bytes
           = <<IAC, CommandFor(response.direction, response.enable), response.opt>>

\* The first negotiation frame of each instantiation of async_write_negotiation
\* is the frame of its arguments.
C10_FirstFrameOnly ==
  \A i \in DOMAIN outstanding :
    outstanding[i].kind = "negotiation" =>
      \E t \in TokenTypes : buf[t] = Some(outstanding[i].bytes)

(***************************************************************************)
(* write_some escaping and the parser of the receiving peer                *)
(***************************************************************************)
\* Bound: the bytes handed to write_some over all the calls, and the calls.
MaxData == 3

\* The byte values write_some is called with.
CodecBytes == {NUL, LF, CR, DATA, IAC}
CodecData == UNION {[1 .. n -> CodecBytes] : n \in 0 .. MaxData}

CodecInit ==
  /\ QIdle
  /\ FsmIdle
  /\ StreamIdle
  /\ ThreadsIdle
  /\ codec \in {NewCodec(lb, rb) : lb \in BOOLEAN, rb \in BOOLEAN}

\* stream::async_write_some: the escaped buffer is written to the transport whole.
AsyncWriteSome(data) ==
  /\ codec.writes < MaxData
  /\ Len(codec.data) + Len(data) <= MaxData
  /\ LET escaped_data == escape_telnet_output(codec.sender, data)
     IN codec' = [codec EXCEPT !.data = @ \o data,
                               !.wire = @ \o escaped_data,
                               !.pending = @ \o escaped_data,
                               !.writes = @ + 1]
  /\ UNCHANGED <<peer, chan, calls, sent, fsm_, last, streamVars, threads>>

\* The application window after one pass of the processing loop over a byte
\* for which process_byte returned r: process_fsm_signals, then the forward.
Delivered(window, f, byte, r) ==
  LET s == Run(NewContext, f, [NewProcessor(0) EXCEPT !.window = window],
               [t \in TokenTypes |-> None], NoLast)
  IN Forward(process_fsm_signals(s, r.ec).run, byte, r.forward).processor.window

\* The receiving peer processes the next byte of the wire.
CodecProcessByte ==
  /\ codec.pending # <<>>
  /\ LET byte == Head(codec.pending)
         r == process_byte(codec.receiver, byte)
         window == Delivered(codec.delivered, codec.receiver, byte, r)
     IN codec' = [codec EXCEPT
                    !.pending = Tail(@),
                    !.receiver = r.fsm,
                    !.delivered = window,
                    !.steps = Append(@, [before |-> codec.receiver.current_state_,
                                         byte |-> byte, forward |-> r.forward, ec |-> r.ec,
                                         response |-> r.response,
                                         after |-> r.fsm.current_state_,
                                         window_before |-> codec.delivered,
                                         window_after |-> window])]
  /\ UNCHANGED <<peer, chan, calls, sent, fsm_, last, streamVars, threads>>

CodecNext ==
  \/ \E data \in CodecData : AsyncWriteSome(data)
  \/ CodecProcessByte

SpecCodec == CodecInit /\ [][CodecNext]_vars

\* C11: with BINARY enabled for the sender's local direction and for the
\* receiver's remote direction, once the receiver has processed every byte
\* that write_some put on the wire, its application has been delivered
\* exactly the bytes the sender's application wrote.
C11_RoundTrip ==
  (codec.local_binary /\ codec.remote_binary /\ codec.pending = <<>>) =>
    codec.delivered = codec.data

\* The round trip of C11 for data that contains no NUL byte.
C11_NonNulRoundTrip ==
  (codec.local_binary /\ codec.remote_binary /\ codec.pending = <<>>
     /\ \A i \in DOMAIN codec.data : codec.data[i] # NUL) =>
    codec.delivered = codec.data

\* The wire image of one application byte.
EscapedByte(byte, binary) ==
  CASE byte = IAC -> <<IAC, IAC>>
    [] byte = LF /\ ~binary -> <<CR, LF>>
    [] byte = CR /\ ~binary -> <<CR, NUL>>
    [] OTHER -> <<byte>>

RECURSIVE EscapedBytes(_, _)
EscapedBytes(data, binary) ==
  IF data = <<>> THEN <<>>
  ELSE EscapedByte(Head(data), binary) \o EscapedBytes(Tail(data), binary)

\* C12: what write_some puts on the wire is the byte-wise image of its
\* argument, in order: IAC becomes IAC IAC whatever BINARY is; LF becomes
\* CR LF and CR becomes CR NUL when BINARY is not locally enabled; every
\* other byte, and CR and LF under BINARY, is copied unchanged.
C12_EscapeMap == codec.wire = EscapedBytes(codec.data, codec.local_binary)

\* C12 witness: "\n", "a", "\r" written without BINARY is CR LF a CR NUL on the wire.
C12_Witness ==
  /\ ~codec.local_binary
  /\ codec.data = <<LF, DATA, CR>>
  /\ codec.wire = <<CR, LF, DATA, CR, NUL>>

\* C13: when BINARY is not locally enabled, the concatenated wire output of
\* any sequence of write_some calls has no bare CR and no bare LF: every CR
\* is immediately followed by LF or NUL, every LF immediately preceded by CR.
C13_NoBareCRLF ==
  ~codec.local_binary =>
    \A i \in DOMAIN codec.wire :
      /\ codec.wire[i] = CR =>
           (i < Len(codec.wire) /\ codec.wire[i + 1] \in {LF, NUL})
      /\ codec.wire[i] = LF => (i > 1 /\ codec.wire[i - 1] = CR)

\* C13 witness: two calls, the first ending in CR and the second starting with LF.
C13_Witness ==
  /\ ~codec.local_binary
  /\ codec.writes = 2
  /\ codec.data = <<DATA, CR, LF>>
  /\ codec.wire = <<DATA, CR, NUL, CR, LF>>

\* C14: from parser state Normal, the two bytes IAC IAC forward exactly one
\* data byte 0xFF (the first byte is not forwarded, the second is), produce
\* no signal and no event, and leave the parser in Normal.
C14_EscapedIAC ==
  \A i \in 1 .. Len(codec.steps) - 1 :
    LET first == codec.steps[i]
        second == codec.steps[i + 1]
    IN (first.before = "Normal" /\ first.byte = IAC /\ second.byte = IAC) =>
         /\ ~first.forward /\ second.forward
         /\ first.ec = "" /\ second.ec = ""
         /\ first.response = None /\ second.response = None
         /\ second.after = "Normal"
         /\ second.window_after = first.window_before \o <<IAC>>

\* C14 witness: the receiver has processed IAC IAC from Normal after a data byte.
C14_Witness ==
  /\ Len(codec.steps) = 3
  /\ codec.steps[2].before = "Normal"
  /\ codec.steps[2].byte = IAC
  /\ codec.steps[3].byte = IAC
  /\ codec.delivered = <<DATA, IAC>>

(***************************************************************************)
(* The parser alone on subnegotiation frames                               *)
(***************************************************************************)
\* The registry of the subnegotiation runs: SUPPRESS_GO_AHEAD supports
\* subnegotiation (payloads up to MaxSubnegotiationSize), ECHO does not.
SubRegistry ==
  [id \in Byte |->
     IF id = SUPPRESS_GO_AHEAD
       THEN Some(Option(SUPPRESS_GO_AHEAD, TRUE, TRUE, TRUE, MaxSubnegotiationSize))
     ELSE IF id = ECHO THEN Some(Option(ECHO, FALSE, TRUE, FALSE, MaxSubnegotiationSize))
     ELSE None]

\* The bytes the peer sends in these runs.
SubBytes == {IAC, SB, SE, SUPPRESS_GO_AHEAD, ECHO}

\* An engine whose option id is enabled in the given directions.
WithEnabled(f, id, local, remote) ==
  LET l == IF local THEN enable(f.option_status_[id], "local") ELSE f.option_status_[id]
  IN SetStatus(f, id, IF remote THEN enable(l, "remote") ELSE l)

\* The record of the last process_byte call: the parser state, the current
\* option and the subnegotiation buffer it found, its results, and the bytes
\* processed since the option id of the subnegotiation in progress.
NoSubLast ==
  [op |-> "none", parser |-> "Normal", byte |-> NUL, option |-> None, buffer |-> <<>>,
   ec |-> "", forward |-> FALSE, response |-> None, log |-> "", frame |-> <<>>]

SubInit ==
  /\ QIdle
  /\ StreamIdle
  /\ CodecIdle
  /\ ThreadsIdle
  /\ fsm_ \in {WithEnabled(WithEnabled(NewFSM(SubRegistry), SUPPRESS_GO_AHEAD, l, FALSE),
                           ECHO, FALSE, e) : l \in BOOLEAN, e \in BOOLEAN}
  /\ last = NoSubLast

SubProcessByte(byte) ==
  LET r == process_byte(fsm_, byte)
  IN /\ fsm_' = r.fsm
     /\ last' = [op |-> "process_byte", parser |-> fsm_.current_state_, byte |-> byte,
                 option |-> fsm_.current_option_, buffer |-> fsm_.subnegotiation_buffer_,
                 ec |-> r.ec, forward |-> r.forward, response |-> r.response, log |-> r.log,
                 frame |-> IF fsm_.current_state_ \in {"Subnegotiation", "SubnegotiationIAC"}
                           THEN Append(last.frame, byte) ELSE <<>>]
     /\ UNCHANGED <<peer, chan, calls, sent, streamVars, codec, threads>>

SubNext == \E byte \in SubBytes : SubProcessByte(byte)

SpecSub == SubInit /\ [][SubNext]_vars

\* The cap of the option of the subnegotiation in progress.
CurrentCap == Value(fsm_.current_option_).max_subnegotiation_size

\* The bytes the last byte asks to append to the subnegotiation buffer: a
\* plain byte, an escaped IAC, or IAC and the stray byte that followed it.
Appended ==
  IF last.parser = "Subnegotiation"
    THEN IF last.byte = IAC THEN <<>> ELSE <<last.byte>>
  ELSE IF last.parser = "SubnegotiationIAC"
    THEN IF last.byte = SE THEN <<>>
         ELSE IF last.byte = IAC THEN <<IAC>> ELSE <<IAC, last.byte>>
  ELSE <<>>

\* C15: the subnegotiation buffer never holds more than the cap of the
\* current option, and a byte that would make it exceed the cap yields
\* subnegotiation_overflow, empties the buffer and resets the parser to Normal.
C15_SubnegotiationBound ==
  /\ HasValue(fsm_.current_option_) => Len(fsm_.subnegotiation_buffer_) <= CurrentCap
  /\ fsm_.current_state_ = "Normal" => fsm_.subnegotiation_buffer_ = <<>>
  /\ (last.op = "process_byte" /\ HasValue(last.option)
        /\ Len(last.buffer) + Len(Appended) > Value(last.option).max_subnegotiation_size) =>
       /\ last.ec = "subnegotiation_overflow"
       /\ fsm_.current_state_ = "Normal"
       /\ fsm_.subnegotiation_buffer_ = <<>>

\* What the parser does keep of C15: a byte arriving when the buffer already
\* holds the cap yields subnegotiation_overflow and a reset, and the buffer
\* never holds more than one byte above the cap.
C15_OverflowAtCap ==
  /\ HasValue(fsm_.current_option_) => Len(fsm_.subnegotiation_buffer_) <= CurrentCap + 1
  /\ fsm_.current_state_ = "Normal" => fsm_.subnegotiation_buffer_ = <<>>
  /\ (last.op = "process_byte" /\ HasValue(last.option) /\ Appended # <<>>
        /\ Len(last.buffer) >= Value(last.option).max_subnegotiation_size) =>
       /\ last.ec = "subnegotiation_overflow"
       /\ fsm_.current_state_ = "Normal"
       /\ fsm_.subnegotiation_buffer_ = <<>>

RECURSIVE Undoubled(_)
\* A received payload with every IAC IAC pair reduced to one IAC.
Undoubled(bytes) ==
  IF Len(bytes) < 2 THEN bytes
  ELSE IF bytes[1] = IAC
    THEN IF bytes[2] = IAC THEN <<IAC>> \o Undoubled(SubSeq(bytes, 3, Len(bytes)))
         ELSE <<IAC, bytes[2]>> \o Undoubled(SubSeq(bytes, 3, Len(bytes)))
  ELSE <<bytes[1]>> \o Undoubled(Tail(bytes))

\* The last byte was the SE that closes a subnegotiation frame.
FrameClosed ==
  /\ last.op = "process_byte"
  /\ last.parser = "SubnegotiationIAC"
  /\ last.byte = SE
  /\ HasValue(last.option)

\* C16: when IAC SE closes a subnegotiation, the handler of the option is
\* handed exactly the bytes received between the option id and IAC SE with
\* every IAC IAC pair reduced to one IAC, and only if the option supports
\* subnegotiation and is enabled in at least one direction; otherwise nothing
\* is handed over and no response is produced.
C16_PayloadDelivered ==
  FrameClosed =>
    LET opt == Value(last.option)
        payload == Undoubled(SubSeq(last.frame, 1, Len(last.frame) - 2))
    IN /\ fsm_.current_state_ = "Normal"
       /\ last.ec = "" /\ ~last.forward
       /\ IF opt.supports_subnegotiation /\ is_enabled(fsm_.option_status_[opt.id])
          THEN last.response = Some(SubnegotiationAwaitable(opt.id, payload, "handler", <<>>))
          ELSE last.response = None

\* C16 witness: IAC SB SUPPRESS_GO_AHEAD IAC IAC 0x01 IAC SE on an enabled
\* option hands the two bytes 0xFF 0x01 to the handler.
C16_Witness ==
  /\ FrameClosed
  /\ last.frame = <<IAC, IAC, ECHO, IAC, SE>>
  /\ last.response = Some(SubnegotiationAwaitable(SUPPRESS_GO_AHEAD, <<IAC, ECHO>>, "handler", <<>>))

(***************************************************************************)
(* The parser alone on STATUS subnegotiations                              *)
(***************************************************************************)
\* The options of the STATUS runs: those that may be enabled locally and
\* those that may be enabled remotely (255 and 240 are the ids that the
\* payload doubles).
StatusLocalOptions == {STATUS, SUPPRESS_GO_AHEAD, IAC}
StatusRemoteOptions == {STATUS, ECHO, SE}

StatusRegistry ==
  [id \in Byte |->
     IF id \in StatusLocalOptions \cup StatusRemoteOptions
     THEN Some(Option(id, id \in StatusLocalOptions, id \in StatusRemoteOptions,
                      id = STATUS, MaxSubnegotiationSize))
     ELSE None]

\* An engine with exactly the given options enabled in each direction.
WithStatusDB(f, local, remote) ==
  [f EXCEPT !.option_status_ =
     [id \in Byte |->
        [d \in Dirs |->
           IF (d = "local" /\ id \in local) \/ (d = "remote" /\ id \in remote)
           THEN [state |-> "YES", queue |-> FALSE]
           ELSE [state |-> "NO", queue |-> FALSE]]]]

\* The payloads of the STATUS frames the peer sends.
StatusPayloads == {<<>>, <<IS>>, <<SEND>>, <<DATA>>}

StatusInit ==
  /\ QIdle
  /\ CodecIdle
  /\ ThreadsIdle
  /\ context_ = NewContext
  /\ processor = NoProcessor
  /\ app = NoApp
  /\ outstanding = <<>>
  /\ buf = [t \in TokenTypes |-> None]
  /\ wire = NoWrite
  /\ tokens = 0
  /\ oob_receive = FALSE
  /\ fsm_ \in {WithStatusDB(NewFSM(StatusRegistry), local, remote) :
                 local \in SUBSET StatusLocalOptions, remote \in SUBSET StatusRemoteOptions}
  /\ incoming \in {<<IAC, SB, STATUS>> \o payload \o <<IAC, SE>> : payload \in StatusPayloads}
  /\ last = NoSubLast

\* The engine processes the next byte of the frame.
StatusProcessByte ==
  /\ incoming # <<>>
  /\ LET byte == Head(incoming)
         r == process_byte(fsm_, byte)
     IN /\ fsm_' = r.fsm
        /\ last' = [op |-> "process_byte", parser |-> fsm_.current_state_, byte |-> byte,
                    option |-> fsm_.current_option_, buffer |-> fsm_.subnegotiation_buffer_,
                    ec |-> r.ec, forward |-> r.forward, response |-> r.response,
                    log |-> r.log,
                    frame |-> IF fsm_.current_state_ \in {"Subnegotiation", "SubnegotiationIAC"}
                              THEN Append(last.frame, byte) ELSE <<>>]
  /\ incoming' = Tail(incoming)
  /\ UNCHANGED <<peer, chan, calls, sent, codec, threads, context_, processor, app, outstanding, buf,
                 wire, tokens, oob_receive>>

StatusNext == StatusProcessByte

SpecStatus == StatusInit /\ [][StatusNext]_vars

\* The options enabled in a direction.
EnabledOptions(direction) ==
  {id \in Byte : enabled(fsm_.option_status_[id], direction)}

RECURSIVE Ascending(_)
\* The ids of a set in ascending order.
Ascending(ids) ==
  IF ids = {} THEN <<>>
  ELSE LET least == CHOOSE x \in ids : \A y \in ids : x <= y
       IN <<least>> \o Ascending(ids \ {least})

\* An option id as the payload carries it: 255 and 240 written twice.
PayloadId(id) == IF id \in {IAC, SE} THEN <<id, id>> ELSE <<id>>

RECURSIVE Grouped(_, _)
\* One entry `command id` for each id of the sequence.
Grouped(command, ids) ==
  IF ids = <<>> THEN <<>>
  ELSE <<command>> \o PayloadId(Head(ids)) \o Grouped(command, Tail(ids))

RECURSIVE PerOption(_, _, _)
\* For each id of the sequence in turn: WILL id if it is in local, then DO id
\* if it is in remote.
PerOption(ids, local, remote) ==
  IF ids = <<>> THEN <<>>
  ELSE LET id == Head(ids)
       IN (IF id \in local THEN <<WILL>> \o PayloadId(id) ELSE <<>>)
          \o (IF id \in remote THEN <<DO>> \o PayloadId(id) ELSE <<>>)
          \o PerOption(Tail(ids), local, remote)

\* The last byte closed a STATUS SEND frame while STATUS was locally enabled.
StatusSendAnswered ==
  /\ FrameClosed
  /\ Value(last.option).id = STATUS
  /\ last.buffer = <<SEND>>
  /\ local_enabled(fsm_.option_status_[STATUS])

\* The payload of the answer to the last frame.
StatusReply == Value(last.response).reply

C18_NoStatusEntry ==
  StatusSendAnswered =>
    \A i \in 1 .. Len(StatusReply) - 1 :
      ~(StatusReply[i] \in {WILL, DO} /\ StatusReply[i + 1] = STATUS)

(***************************************************************************)
(* The read pipeline on STATUS subnegotiations and on IAC AO               *)
(***************************************************************************)
\* What the peer sends: a data byte, IAC AO, and a STATUS subnegotiation
\* with each of the payloads.
ReadTokens ==
  {<<DATA>>, <<IAC, AO>>}
  \cup {<<IAC, SB, STATUS>> \o payload \o <<IAC, SE>> : payload \in StatusPayloads}

\* Bound: the capacity of the application's read window in these runs.
MaxReadWindow == 2

\* The stream with STATUS enabled or not in each direction; the application
\* only reads.
ReadInit ==
  /\ QIdle
  /\ StreamIdle
  /\ CodecIdle
  /\ ThreadsIdle
  /\ fsm_ \in {WithStatusDB(NewFSM(StatusRegistry), local, remote) :
                 local \in SUBSET {STATUS}, remote \in SUBSET {STATUS}}
  /\ last = NoLast

ReadNext ==
  \/ \E token \in ReadTokens : PeerSend(token)
  \/ \E cap \in 1 .. MaxReadWindow : AsyncReadSome(cap)
  \/ \E n \in 1 .. Len(incoming) : TransportRead(n)
  \/ \E i \in DOMAIN outstanding : WriteComplete(i)
  \/ \E reply \in SubnegotiationReplies : ReadHandlerComplete(reply)

SpecRead == ReadInit /\ [][ReadNext]_vars

\* The last subnegotiation closed in the read pipeline was a STATUS frame.
StatusFrameClosed == last.op = "subnegotiation" /\ last.opt = STATUS

\* ... which the gating refuses: empty, neither IS nor SEND, SEND while
\* STATUS is not locally enabled, or IS while it is not remotely enabled.
StatusFrameRefused ==
  /\ StatusFrameClosed
  /\ \/ last.buffer = <<>>
     \/ Head(last.buffer) \notin {IS, SEND}
     \/ Head(last.buffer) = SEND /\ ~local_enabled(fsm_.option_status_[STATUS])
     \/ Head(last.buffer) = IS /\ ~remote_enabled(fsm_.option_status_[STATUS])

\* A subnegotiation frame is being written by the read pipeline.
SubnegotiationWritten ==
  \E i \in DOMAIN outstanding : outstanding[i].kind = "subnegotiation"

\* C19: as long as the last STATUS frame is one the gating refuses, no
\* subnegotiation frame is written, no handler is invoked and the coroutine
\* that handles the frame returns, so that read_some goes on with the
\* following bytes.
C19_StatusGating ==
  StatusFrameRefused =>
    /\ ~SubnegotiationWritten
    /\ processor.waits \notin {"subnegotiation_handler", "subnegotiation_write", "undefined"}

\* C19, the refused frames with a payload: nothing is written, no handler is
\* invoked, the coroutine returns.
C19_RefusedWithPayload ==
  StatusFrameRefused /\ last.buffer # <<>> =>
    /\ ~SubnegotiationWritten
    /\ processor.waits \notin {"subnegotiation_handler", "subnegotiation_write", "undefined"}

\* C19, SEND while STATUS is locally enabled: one STATUS frame is handed to
\* the transport and read_some waits for it.
C19_SendAnswered ==
  /\ StatusFrameClosed
  /\ last.buffer = <<SEND>>
  /\ local_enabled(fsm_.option_status_[STATUS])
  /\ processor.waits = "subnegotiation_write"
  => /\ Len(outstanding) = 1
     /\ outstanding[1].kind = "subnegotiation"
     /\ SubSeq(outstanding[1].bytes, 1, 4) = <<IAC, SB, STATUS, IS>>

\* The write the k-th step of a Synch send hands to the transport.
SynchStep(k) ==
  IF k = 1 THEN Write("read", "nul", <<NUL>>, None, NoCause) ELSE SynchWrite(k)

\* The read_some in progress is suspended on the Synch send started by IAC AO.
SynchInProgress == processor.waits = "synch"

\* C20, the state while read_some is suspended on the Synch: the staging
\* buffer is empty, abort_output is saved, the read has not completed and
\* the one write in progress is the current step of the Synch.
C20_Suspended ==
  SynchInProgress =>
    /\ context_.output_side_buffer = <<>>
    /\ context_.deferred_processing_signal = "abort_output"
    /\ processor.state_ = "processing"
    /\ processor.result = None
    /\ processor.synch_step \in 1 .. 4
    /\ outstanding = <<SynchStep(processor.synch_step)>>

\* One step of a suspended read_some: no byte is processed, and either the
\* next write of the Synch is started by the completion of the current one,
\* or IAC DM has completed and the read completes with abort_output.
SynchStepTaken ==
  SynchInProgress /\ processor' # processor =>
    /\ fsm_' = fsm_
    /\ context_'.input_side_buffer = context_.input_side_buffer
    /\ processor'.window = processor.window
    /\ wire' = SynchStep(processor.synch_step)
    /\ IF processor.synch_step < 4
       THEN /\ processor'.waits = "synch"
            /\ processor'.synch_step = processor.synch_step + 1
       ELSE /\ processor'.state_ = "done"
            /\ Value(processor'.result).ec = "abort_output"

\* The step that starts the Synch send: the input up to and including the
\* AO byte is consumed, what follows it is left unprocessed, and the first
\* NUL is handed to the transport.
SynchStarted ==
  ~SynchInProgress /\ SynchInProgress' =>
    LET input == context_.input_side_buffer \o incoming
        rest == context_'.input_side_buffer \o incoming'
    IN /\ \E k \in DOMAIN input : input[k] = AO /\ rest = SubSeq(input, k + 1, Len(input))
       /\ fsm_'.current_state_ = "Normal"
       /\ processor'.synch_step = 1

AbortOutputReported ==
  /\ processor.state_ = "done"
  /\ HasValue(processor.result)
  /\ Value(processor.result).ec = "abort_output"

\* C21: the read_some completion that reports abort_output reports zero
\* bytes transferred.
C21_AbortOutputZeroBytes ==
  AbortOutputReported => Value(processor.result).bytes = 0

\* C21, the part that holds: abort_output is reported once, by the
\* completion of the read_some that met IAC AO, and is not saved any longer.
C21_ReportedOnce ==
  [][/\ AbortOutputReported => context_.deferred_processing_signal = ""
     /\ ~AbortOutputReported /\ AbortOutputReported' => SynchInProgress]_vars


\* C35: the bytes that have arrived in the raw input buffer for the current
\* read_some are, in order, those passed to process_byte followed by those
\* still in the buffer: whether the read_some is suspended on a write, a
\* handler or a Synch, waits for a transport read or has completed, no byte
\* has been skipped or processed twice.
C35_ExactlyOnce ==
  processor.state_ # "none" =>
    processor.arrived = processor.processed \o context_.input_side_buffer

\* Witness: a STATUS SEND frame and a data byte arrived in one transport
\* read; the read_some was suspended for the write of the reply, went on with
\* the data byte when the write completed, and has completed.
C35_Witness ==
  /\ processor.state_ = "done"
  /\ processor.later
  /\ processor.arrived = <<IAC, SB, STATUS, SEND, IAC, SE, DATA>>
  /\ processor.processed = processor.arrived
  /\ processor.window = <<DATA>>


(***************************************************************************)
(* The read pipeline on subnegotiation frames alone                        *)
(***************************************************************************)
\* The peer sends nothing but whole frames IAC SB id payload IAC SE: for
\* STATUS, for ECHO, which does not support subnegotiation, and for an
\* unregistered option; with a payload that is empty, within the size cap,
\* or two bytes longer than the cap.
FrameOptions == {STATUS, ECHO, UNREGISTERED}

FramePayloads ==
  {<<>>, <<DATA>>, [i \in 1 .. MaxSubnegotiationSize + 2 |-> DATA]}

FrameTokens ==
  {<<IAC, SB, id>> \o payload \o <<IAC, SE>> : id \in FrameOptions, payload \in FramePayloads}

FramesNext ==
  \/ \E token \in FrameTokens : PeerSend(token)
  \/ \E cap \in 1 .. MaxReadWindow : AsyncReadSome(cap)
  \/ \E n \in 1 .. Len(incoming) : TransportRead(n)
  \/ \E i \in DOMAIN outstanding : WriteComplete(i)
  \/ \E reply \in SubnegotiationReplies : ReadHandlerComplete(reply)

SpecFrames == ReadInit /\ [][FramesNext]_vars

\* C36: when everything received lies between an IAC SB and its IAC SE, no
\* byte is written to the application window and no read_some reports bytes.
C36_Containment ==
  /\ processor.window = <<>>
  /\ HasValue(processor.result) => Value(processor.result).bytes = 0


(***************************************************************************)
(* A subnegotiation frame from write_subnegotiation to the peer's handler  *)
(***************************************************************************)
\* The bytes a payload is made of, and the payloads within the size cap.
FrameCodecBytes == {DATA, NUL, CR, LF, IAC}

FrameCodecPayloads ==
  UNION {[1 .. n -> FrameCodecBytes] : n \in 0 .. MaxSubnegotiationSize}

\* Sender and receiver have SUPPRESS_GO_AHEAD, which supports
\* subnegotiation, enabled; BINARY is enabled or not on the sender's local and
\* on the receiver's remote side.
FrameCodecInit ==
  /\ QIdle
  /\ FsmIdle
  /\ StreamIdle
  /\ ThreadsIdle
  /\ \E lb \in BOOLEAN, rb \in BOOLEAN :
       LET f == WithEnabled(NewFSM(SubRegistry), SUPPRESS_GO_AHEAD, TRUE, FALSE)
       IN codec = [NewCodec(lb, rb) EXCEPT !.sender = WithBinary(f, "local", lb),
                                           !.receiver = WithBinary(f, "remote", rb)]

\* The sender's write_subnegotiation(opt, payload): the frame is written to
\* the transport whole.
CodecWriteSubnegotiation(opt, payload) ==
  /\ codec.writes = 0
  /\ LET w == async_write_subnegotiation(codec.sender, opt, payload, "")
     IN /\ w.ec = ""
        /\ codec' = [codec EXCEPT !.data = payload,
                                  !.wire = w.bytes,
                                  !.pending = w.bytes,
                                  !.writes = 1]
  /\ UNCHANGED <<peer, chan, calls, sent, fsm_, last, streamVars, threads>>

FrameCodecNext ==
  \/ \E payload \in FrameCodecPayloads : CodecWriteSubnegotiation(SUPPRESS_GO_AHEAD, payload)
  \/ CodecProcessByte

SpecFrameCodec == FrameCodecInit /\ [][FrameCodecNext]_vars

\* The payloads the receiver has handed to the handler of the option.
HandedToHandler ==
  LET handed == SelectSeq(codec.steps, LAMBDA step : HasValue(step.response))
  IN [i \in DOMAIN handed |-> Value(handed[i].response).buffer]

FrameReceived == codec.writes = 1 /\ codec.pending = <<>>

\* C37: when the frame of write_subnegotiation(opt, P) has been processed by
\* the receiver, its handler has been handed P, once, and no byte has reached
\* the application window.
C37_RoundTrip ==
  FrameReceived =>
    /\ HandedToHandler = <<codec.data>>
    /\ codec.delivered = <<>>

\* Under C37: the round trip of the frames written with BINARY enabled on
\* the sender's local side, and of payloads without CR and LF.
C37_BinaryRoundTrip ==
  (FrameReceived /\ (codec.local_binary
                       \/ \A i \in DOMAIN codec.data : codec.data[i] \notin {CR, LF})) =>
    /\ HandedToHandler = <<codec.data>>
    /\ codec.delivered = <<>>


(***************************************************************************)
(* The engine on an option the application never registered                *)
(***************************************************************************)
\* The inbound frames: the four negotiation commands and an empty
\* subnegotiation, each naming the unregistered option.
UnregisteredFrames ==
  {<<IAC, command, UNREGISTERED>> : command \in {WILL, WONT, DO, DONT}}
    \cup {<<IAC, SB, UNREGISTERED, IAC, SE>>}

\* The application has registered SUPPRESS_GO_AHEAD and ECHO; nothing has
\* been received or requested.
UnregisteredInit ==
  /\ fsm_ = NewFSM(SubRegistry)
  /\ last = NoLast
  /\ QIdle
  /\ StreamIdle
  /\ CodecIdle
  /\ ThreadsIdle

RECURSIVE ProcessBytes(_, _)
\* The engine after process_byte has been called on each byte in turn.
ProcessBytes(f, bytes) ==
  IF bytes = <<>> THEN f
  ELSE ProcessBytes(process_byte(f, Head(bytes)).fsm, Tail(bytes))

\* One inbound frame passes through process_byte; `last` is the call on the
\* closing byte of the frame, the one that yields the engine's response.
FsmProcessFrame(frame) ==
  LET f == ProcessBytes(fsm_, SubSeq(frame, 1, Len(frame) - 1))
      byte == frame[Len(frame)]
      r == process_byte(f, byte)
  IN /\ fsm_' = r.fsm
     /\ last' = [op |-> "process_byte", parser |-> f.current_state_,
                 command |-> f.current_command_, opt |-> byte,
                 direction |-> DirectionOf(f.current_command_),
                 before |-> fsm_.option_status_[UNREGISTERED],
                 after |-> r.fsm.option_status_[UNREGISTERED],
                 ec |-> r.ec, forward |-> r.forward, response |-> r.response,
                 awaitable |-> None, log |-> r.log]
     /\ UNCHANGED <<peer, chan, calls, sent, streamVars, codec, threads>>

UnregisteredNext ==
  \/ \E frame \in UnregisteredFrames : FsmProcessFrame(frame)
  \/ \E direction \in Dirs : FsmRequestOption(UNREGISTERED, direction)
  \/ \E direction \in Dirs : FsmDisableOption(UNREGISTERED, direction)

SpecUnregistered == UnregisteredInit /\ [][UnregisteredNext]_vars

\* What the claim asks of the unregistered option in one state.
StaysRefused ==
  /\ fsm_.option_status_[UNREGISTERED] = OptionStatusRecord
  /\ (last.op \in {"request_option", "disable_option"} /\ last.opt = UNREGISTERED) =>
       /\ last.ec = "option_not_available"
       /\ ~HasValue(last.response)
  /\ \A command \in {WILL, DO} :
       FrameOf(last.response) # Some(<<IAC, command, UNREGISTERED>>)

\* C38: after any inbound bytes and application calls, request_option and
\* disable_option for the unregistered option fail with option_not_available,
\* no IAC WILL or IAC DO naming it is produced, and its status stays NO in
\* both directions.
C38_StaysRefused == StaysRefused

\* Under C38: the option is refused as claimed until the peer has opened a
\* subnegotiation naming it.
C38_UntilSubnegotiation == ~Registered(UNREGISTERED) => StaysRefused


(***************************************************************************)
(* The input_processor one handler at a time                               *)
(***************************************************************************)
\* What the peer sends in one piece: a data byte, a command that is dropped
\* silently and one that ends the read with a signal.
ProgressTokens == {<<DATA>>, <<IAC, NOP>>, <<IAC, GA>>}

\* stream::async_read_some: the input_processor is constructed over a window
\* of `cap` bytes; its first invocation is the step below.
ReadSomeStarts(cap) ==
  /\ processor.state_ \in {"none", "done"}
  /\ processor' = [NewProcessor(cap) EXCEPT !.arrived = context_.input_side_buffer]
  /\ UNCHANGED <<codec, threads, peer, chan, calls, sent, fsm_, last, context_, app,
                 outstanding, buf, wire, incoming, tokens, oob_receive>>

\* handle_processor_state_initializing up to its call of
\* handle_processor_state_reading: state "reading" with nothing awaited is
\* that call about to be made.
initializing_step(s) ==
  IF Len(s.context_.input_side_buffer) = 0
  THEN IF s.context_.deferred_transport_error # ""
       THEN complete([s EXCEPT !.processor.state_ = "reading",
                               !.context_.deferred_transport_error = ""],
                     s.context_.deferred_transport_error, 0)
       ELSE launch_wait_for_urgent_data([s EXCEPT !.processor.state_ = "reading",
                                                  !.processor.waits = "read"])
  ELSE [s EXCEPT !.processor.state_ = "reading"]

\* handle_processor_state_reading up to its call of
\* handle_processor_state_processing.
reading_step(s, ec_in, read) ==
  IF Len(s.context_.input_side_buffer) + Len(read) = 0
  THEN complete(s, ec_in, 0)
  ELSE [s EXCEPT !.context_.input_side_buffer = @ \o read,
                 !.processor.arrived = @ \o read,
                 !.context_.deferred_transport_error = IF ec_in # "" THEN ec_in ELSE @,
                 !.processor.window = <<>>,
                 !.processor.waits = "none",
                 !.processor.state_ = "processing"]

\* The end of handle_processor_state_processing up to its call of
\* handle_processor_state_initializing: state "initializing" is that call
\* about to be made.
finish_step(s, ec, consumed) ==
  LET result_ec == IF ec = "" THEN s.context_.deferred_transport_error ELSE ec
      t == Consume([s EXCEPT !.context_.deferred_transport_error = IF ec = "" THEN "" ELSE @],
                   consumed)
  IN IF result_ec = "" /\ Len(s.processor.window) = 0
     THEN [t EXCEPT !.processor.state_ = "initializing"]
     ELSE complete(t, result_ec, Len(s.processor.window))

processing_step(s) ==
  LET signal == s.context_.deferred_processing_signal
      t == [s EXCEPT !.context_.deferred_processing_signal = "", !.processor.waits = "none"]
      loop == IF signal # "" THEN LoopExit(t, "break", signal, 0) ELSE ProcessBuffer(t, 1)
  IN IF loop.exit = "suspend" THEN loop.run
     ELSE finish_step(loop.run, loop.ec, loop.consumed)

StepInitializing ==
  /\ processor.state_ = "initializing"
  /\ Commit(initializing_step(Run(context_, fsm_, processor, buf, last)), outstanding)
  /\ UNCHANGED <<codec, threads, peer, chan, calls, sent, app, wire, incoming, tokens>>

StepReading ==
  /\ processor.state_ = "reading"
  /\ processor.waits = "none"
  /\ Commit(reading_step(Run(context_, fsm_, processor, buf, last), "", <<>>), outstanding)
  /\ UNCHANGED <<codec, threads, peer, chan, calls, sent, app, wire, incoming, tokens>>

\* The transport read completes with the first n bytes in flight.
StepTransportRead(n) ==
  /\ processor.state_ = "reading"
  /\ processor.waits = "read"
  /\ n \in 1 .. Len(incoming)
  /\ Commit(reading_step(Run(context_, fsm_, processor, buf, last), "",
                         SubSeq(incoming, 1, n)),
            outstanding)
  /\ incoming' = SubSeq(incoming, n + 1, Len(incoming))
  /\ UNCHANGED <<codec, threads, peer, chan, calls, sent, app, wire, tokens>>

StepProcessing ==
  /\ processor.state_ = "processing"
  /\ processor.waits = "none"
  /\ Commit(processing_step(Run(context_, fsm_, processor, buf, last)), outstanding)
  /\ UNCHANGED <<codec, threads, peer, chan, calls, sent, app, wire, incoming, tokens>>

ProgressNext ==
  \/ \E token \in ProgressTokens : PeerSend(token)
  \/ \E cap \in 0 .. MaxReadWindow : ReadSomeStarts(cap)
  \/ StepInitializing
  \/ StepReading
  \/ \E n \in 1 .. Len(incoming) : StepTransportRead(n)
  \/ StepProcessing

SpecProgress == ReadInit /\ [][ProgressNext]_vars

\* handle_processor_state_processing calls handle_processor_state_initializing.
Reinitializes == processor.state_ = "processing" /\ processor'.state_ = "initializing"

\* C39: whatever the window's capacity and the raw buffer's content, when
\* the processing pass of a read_some returns to initializing the raw buffer is
\* empty, so that the next thing the read_some does is a transport read (or
\* the completion with a deferred error): it does not run initializing,
\* reading, processing, initializing without suspending.
C39_Progress == [][Reinitializes => context_'.input_side_buffer = <<>>]_vars

\* Under C39: the same for the windows that have room for a byte.
C39_WithRoom ==
  [][(Reinitializes /\ processor.cap > 0) => context_'.input_side_buffer = <<>>]_vars

(***************************************************************************)
(* The application's write-side operations with a transport that may fail  *)
(***************************************************************************)
\* Error codes a transport write may complete with.
TransportErrors == {"broken_pipe"}

\* Mutant: the second NUL of the Synch is sent as normal data.
send_synch_step_NoUrgent(owner, step) ==
  CASE step \in {1, 2, 3} -> Write(owner, "nul", <<NUL>>, None, NoCause)
    [] OTHER -> Write(owner, "command", <<IAC, DM>>, None, NoCause)

\* stream::async_send_synch: the send its step-th nested handler starts:
\* async_send_nul(false), async_send_nul(true), async_send_nul(false),
\* async_write_command(dm).
send_synch_step(owner, step) ==
  CASE step = 1 -> Write(owner, "nul", <<NUL>>, None, NoCause)
    [] step = 2 -> Write(owner, "urgent_nul", <<NUL>>, None, NoCause)
    [] step = 3 -> Write(owner, "nul", <<NUL>>, None, NoCause)
    [] OTHER -> Write(owner, "command", <<IAC, DM>>, None, NoCause)

\* The application calls async_send_synch: the first NUL is sent.
AsyncSendSynch ==
  /\ AppReady
  /\ outstanding' = <<send_synch_step("app", 1)>>
  /\ app' = [AppCall("send_synch", NUL, "local", FALSE, fsm_, "")
               EXCEPT !.pc = "writing", !.writes = 1]
  /\ UNCHANGED <<codec, threads, peer, chan, calls, sent, fsm_, last, context_, processor, buf, wire,
                 incoming, tokens, oob_receive>>

\* A send of the Synch completes with ec: the nested handler adds the bytes
\* to bytes_transferred and either dispatches the final handler (on an error
\* or after IAC DM) or starts the next send.
SendSynchComplete(ec) ==
  /\ app.op = "send_synch"
  /\ app.pc = "writing"
  /\ Len(outstanding) = 1
  /\ wire' = IF ec = "" THEN outstanding[1] ELSE wire
  /\ IF ec # "" \/ app.writes = 4
     THEN /\ app' = [app EXCEPT !.pc = "done", !.ec = ec,
                                !.bytes = IF ec = "" THEN @ \o outstanding[1].bytes ELSE @]
          /\ outstanding' = <<>>
     ELSE /\ app' = [app EXCEPT !.writes = @ + 1, !.bytes = @ \o outstanding[1].bytes]
          /\ outstanding' = <<send_synch_step("app", app.writes + 1)>>
  /\ UNCHANGED <<codec, threads, peer, chan, calls, sent, fsm_, last, context_, processor, buf,
                 incoming, tokens, oob_receive>>

\* What a push_back of the escape may throw.
EscapeFailures == {"", "bad_alloc", "exception"}

\* The options and payloads the application calls write_subnegotiation with.
WriteOptions == {STATUS, ECHO, UNREGISTERED}
WritePayloads == {<<>>, <<DATA>>, <<CR, IAC>>}

\* stream::write_subnegotiation, i.e. async_write_subnegotiation awaited with
\* asio::use_awaitable: the call completes at once with an error, or one
\* frame is handed to the transport.
AsyncWriteSubnegotiation(opt, payload, thrown) ==
  /\ AppReady
  /\ LET w == async_write_subnegotiation(fsm_, opt, payload, thrown)
         call == [payload |-> payload, thrown |-> thrown]
                 @@ AppCall("write_subnegotiation", opt, "local", FALSE, fsm_, w.ec)
     IN IF w.ec # ""
        THEN /\ app' = call
             /\ UNCHANGED outstanding
        ELSE AppWrite(call, Write("app", "subnegotiation", w.bytes, None, NoCause))
  /\ UNCHANGED <<codec, threads, peer, chan, calls, sent, fsm_, last, context_, processor, buf, wire,
                 incoming, tokens, oob_receive>>

\* The transport completes the write of the frame with ec.
SubnegotiationWriteComplete(ec) ==
  /\ app.op = "write_subnegotiation"
  /\ app.pc = "writing"
  /\ Len(outstanding) = 1
  /\ wire' = IF ec = "" THEN outstanding[1] ELSE wire
  /\ app' = [app EXCEPT !.pc = "done", !.ec = ec]
  /\ outstanding' = <<>>
  /\ UNCHANGED <<codec, threads, peer, chan, calls, sent, fsm_, last, context_, processor, buf,
                 incoming, tokens, oob_receive>>

\* STATUS and ECHO enabled or not; ECHO does not support subnegotiation.
WriteInit ==
  /\ QIdle
  /\ StreamIdle
  /\ CodecIdle
  /\ ThreadsIdle
  /\ fsm_ \in {WithStatusDB(NewFSM(StatusRegistry), local, remote) :
                 local \in SUBSET {STATUS}, remote \in SUBSET {STATUS, ECHO}}
  /\ last = NoLast

WriteNext ==
  \/ AsyncSendSynch
  \/ \E ec \in {""} \cup TransportErrors : SendSynchComplete(ec)
  \/ \E opt \in WriteOptions, payload \in WritePayloads, thrown \in EscapeFailures :
       AsyncWriteSubnegotiation(opt, payload, thrown)
  \/ \E ec \in {""} \cup TransportErrors : SubnegotiationWriteComplete(ec)

SpecWrite == WriteInit /\ [][WriteNext]_vars

\* The four sends of a Synch: what is sent and whether it is flagged urgent.
SynchSends ==
  <<[bytes |-> <<NUL>>, urgent |-> FALSE], [bytes |-> <<NUL>>, urgent |-> TRUE],
    [bytes |-> <<NUL>>, urgent |-> FALSE], [bytes |-> <<IAC, DM>>, urgent |-> FALSE]>>

IsSynchSend(w, k) ==
  /\ w.bytes = SynchSends[k].bytes
  /\ (w.kind = "urgent_nul") = SynchSends[k].urgent

\* A send_synch of the application is in progress.
SendingSynch == app.op = "send_synch" /\ app.pc = "writing"

\* C22: send_synch sends NUL, urgent NUL, NUL, IAC DM in this order, one
\* send in progress at a time, each started by the successful completion of
\* the one before; a send that fails is the last one, and send_synch
\* completes with its error; after IAC DM it completes without error.
C22_SynchOrder ==
  [][/\ SendingSynch' =>
          /\ app'.writes \in 1 .. 4
          /\ Len(outstanding') = 1
          /\ IsSynchSend(outstanding'[1], app'.writes)
          /\ app'.writes = IF SendingSynch THEN app.writes + 1 ELSE 1
          /\ SendingSynch => wire' = outstanding[1]
     /\ SendingSynch /\ ~SendingSynch' =>
          /\ app'.pc = "done"
          /\ outstanding' = <<>>
          /\ \/ app'.ec \in TransportErrors /\ wire' = wire
             \/ /\ app'.ec = ""
                /\ app.writes = 4
                /\ wire' = outstanding[1]
                /\ app'.bytes = <<NUL, NUL, NUL, IAC, DM>>]_vars

\* C22 witness: a send_synch has completed without error after its four sends.
C22_Witness ==
  /\ app.op = "send_synch"
  /\ app.pc = "done"
  /\ app.ec = ""
  /\ app.bytes = <<NUL, NUL, NUL, IAC, DM>>
  /\ wire.bytes = <<IAC, DM>>

\* The last call of the application is a write_subnegotiation.
WroteSubnegotiation == app.op = "write_subnegotiation"

\* The frame of the last write_subnegotiation call.
SubnegotiationFrame ==
  <<IAC, SB, app.opt>>
  \o EscapedBytes(app.payload, local_enabled(fsm_.option_status_[BINARY]))
  \o <<IAC, SE>>

\* The call was rejected with ec: it is complete and nothing was written.
RejectedWith(ec) ==
  /\ app.pc = "done"
  /\ app.ec = ec
  /\ app.writes = 0
  /\ outstanding = <<>>

C28_EscapeFailure ==
  /\ WroteSubnegotiation
  /\ app.thrown # ""
  /\ HasValue(get(fsm_.registered_options, app.opt))
  /\ Value(get(fsm_.registered_options, app.opt)).supports_subnegotiation
  /\ is_enabled(fsm_.option_status_[app.opt])
  => RejectedWith(IF app.thrown = "bad_alloc" THEN "not_enough_memory" ELSE "internal_error")

\* C28, what the code does instead: the frame handed to the transport is
\* IAC SE alone.
C28_PayloadlessFrame ==
  /\ WroteSubnegotiation
  /\ app.thrown # ""
  /\ app.writes = 1
  => app.bytes = <<IAC, SE>>



(***************************************************************************)
(* The read pipeline with urgent notifications and failing transport reads *)
(***************************************************************************)
\* What the peer sends: one or two data bytes, a NUL, CR NUL, the data mark,
\* a command without effect, an erase-character and a request for an
\* unregistered option.
InputTokens ==
  {<<DATA>>, <<DATA, DATA>>, <<NUL>>, <<CR, NUL>>, <<IAC, DM>>, <<IAC, NOP>>, <<IAC, EC>>,
   <<IAC, DO, UNREGISTERED>>}

InputInit ==
  /\ QIdle
  /\ FsmIdle
  /\ StreamIdle
  /\ CodecIdle
  /\ ThreadsIdle

\* The zero-byte out-of-band receive started by launch_wait_for_urgent_data
\* completes without error: its handler clears the flag and calls saw_urgent.
UrgentNotification ==
  /\ oob_receive
  /\ oob_receive' = FALSE
  /\ context_' = [context_ EXCEPT !.waiting_for_urgent_data = FALSE,
                                  !.urgent_data_state = saw_urgent(@)]
  /\ UNCHANGED <<codec, threads, peer, chan, calls, sent, fsm_, last, processor, app,
                 outstanding, buf, wire, incoming, tokens>>

\* The transport read completes with the error ec after the first n bytes in
\* flight.
TransportReadFails(n, ec) ==
  /\ processor.waits = "read"
  /\ n \in 0 .. Len(incoming)
  /\ Commit(operator_call(Run(context_, fsm_, processor, buf, last), ec,
                          SubSeq(incoming, 1, n)),
            outstanding)
  /\ incoming' = SubSeq(incoming, n + 1, Len(incoming))
  /\ UNCHANGED <<codec, threads, peer, chan, calls, sent, app, wire, tokens>>

\* The write of a reply that the input_processor is the handler of completes
\* with the error ec.
ReadWriteFails(i, ec) ==
  /\ i \in DOMAIN outstanding
  /\ outstanding[i].owner = "read"
  /\ processor.waits = "write"
  /\ Commit(operator_call([Run(context_, fsm_, processor, buf, last)
                             EXCEPT !.processor.unwritten = FALSE], ec, <<>>),
            Remove(outstanding, i))
  /\ UNCHANGED <<codec, threads, peer, chan, calls, sent, app, wire, incoming, tokens>>

InputNext ==
  \/ \E token \in InputTokens : PeerSend(token)
  \/ \E cap \in 1 .. MaxReadWindow : AsyncReadSome(cap)
  \/ \E n \in 1 .. Len(incoming) : TransportRead(n)
  \/ \E n \in 0 .. Len(incoming), ec \in TransportErrors : TransportReadFails(n, ec)
  \/ \E i \in DOMAIN outstanding : WriteComplete(i)
  \/ \E i \in DOMAIN outstanding, ec \in TransportErrors : ReadWriteFails(i, ec)
  \/ UrgentNotification

SpecInput == InputInit /\ [][InputNext]_vars

\* C25: no byte is written to the application window while the tracker is in
\* has_urgent_data.
C25_SynchDiscard == ~processor.synch_data

ReadCompleted == processor.state_ = "done" /\ HasValue(processor.result)

\* C26: a read_some that completes with a transport error leaves no raw input
\* in the buffer.
C26_DeferredAfterBuffer ==
  (ReadCompleted /\ Value(processor.result).ec \in TransportErrors)
    => context_.input_side_buffer = <<>>

\* Under C26: the error is reported once; the completion that reports it
\* leaves no error deferred.
C26_ReportedOnce ==
  (ReadCompleted /\ Value(processor.result).ec \in TransportErrors)
    => context_.deferred_transport_error = ""

\* C30: a read_some in progress is suspended on a transport read or on a
\* write, and one that has completed without error or signal has written at
\* least one byte into the window.
C30_NoEmptyCompletion ==
  /\ processor.state_ \in {"initializing", "reading", "processing"} => processor.waits # "none"
  /\ (ReadCompleted /\ Value(processor.result).ec = "") => Value(processor.result).bytes > 0

\* Witness: the peer's two tokens, none of them payload, have been read and
\* processed, and the same read_some has a further transport read outstanding.
C30_Witness ==
  /\ tokens = 2
  /\ incoming = <<>>
  /\ context_.input_side_buffer = <<>>
  /\ processor.state_ = "reading"
  /\ processor.waits = "read"
  /\ ~HasValue(processor.result)
  /\ processor.replies = 1




\* C34: the wait-for-urgent-data flag is set only while a zero-byte
\* out-of-band receive is outstanding, and a read_some that waits for a
\* transport read while the tracker is not in has_urgent_data has such a
\* receive outstanding.
C34_UrgentWait ==
  /\ context_.waiting_for_urgent_data => oob_receive
  /\ (processor.waits = "read" /\ context_.urgent_data_state # "has_urgent_data")
       => oob_receive

\* Under C34: an out-of-band receive is outstanding only with the flag set,
\* so no two are outstanding at once.
C34_NoReentrantWait == oob_receive => context_.waiting_for_urgent_data

(***************************************************************************)
(* The read pipeline on text: CR, LF, NUL and the erase commands           *)
(***************************************************************************)
\* What the peer sends in one piece: one or two of a data byte, CR, LF, NUL,
\* IAC EC and IAC EL.
TextUnits == {<<DATA>>, <<CR>>, <<LF>>, <<NUL>>, <<IAC, EC>>, <<IAC, EL>>}

TextTokens == TextUnits \cup {u \o v : u \in TextUnits, v \in TextUnits}

\* BINARY is enabled on the remote side or not; the application only reads.
TextInit ==
  /\ QIdle
  /\ StreamIdle
  /\ CodecIdle
  /\ ThreadsIdle
  /\ \E binary \in BOOLEAN : fsm_ = WithBinary(NewFSM(StreamRegistry), "remote", binary)
  /\ last = NoLast

TextNext ==
  \/ \E token \in TextTokens : PeerSend(token)
  \/ \E cap \in 1 .. MaxReadWindow : AsyncReadSome(cap)
  \/ \E n \in 1 .. Len(incoming) : TransportRead(n)

SpecText == TextInit /\ [][TextNext]_vars

IsErase(signal) == signal \in {"erase_character", "erase_line"}

\* The erase signals handled by the read_some so far.
Erases == {i \in DOMAIN processor.signals : IsErase(processor.signals[i].signal)}

\* C31: an erase signal met with k >= 1 bytes in the window is cleared and
\* leaves k - 1 bytes (erase_character) or none (erase_line); met with an empty
\* window it is left, and it is then the last signal handled and the error
\* code the read_some has completed with, with zero bytes. The number of
\* bytes in the window is never negative.
C31_EraseAbsorbed ==
  \A i \in Erases :
    LET e == processor.signals[i]
    IN /\ e.before >= 0 /\ e.after >= 0
       /\ e.before > 0 =>
            /\ e.left = ""
            /\ e.after = IF e.signal = "erase_character" THEN e.before - 1 ELSE 0
       /\ e.before = 0 =>
            /\ e.left = e.signal
            /\ e.after = 0
            /\ i = Len(processor.signals)
            /\ processor.state_ = "done"
            /\ processor.result = Some([ec |-> e.signal, bytes |-> 0])

\* Witness: in one read_some an erase_character has taken away the data byte
\* written before it, processing went on, and the erase_line that followed
\* met an empty window and ended the read_some.
C31_Witness ==
  /\ processor.signals =
       <<[signal |-> "erase_character", before |-> 1, after |-> 0, left |-> ""],
         [signal |-> "erase_line", before |-> 0, after |-> 0, left |-> "erase_line"]>>
  /\ processor.result = Some([ec |-> "erase_line", bytes |-> 0])


\* A transport read hands the bytes in flight, all of them, to a read_some
\* whose raw input buffer is empty and whose parser is in Normal.
TextDelivered ==
  /\ processor.waits = "read"
  /\ fsm_.current_state_ = "Normal"
  /\ context_.input_side_buffer = <<>>
  /\ incoming # <<>>
  /\ incoming' = <<>>

RemoteBinary == enabled(fsm_.option_status_[BINARY], "remote")

\* read_some has completed with ec and the bytes of `window`.
Delivers(window, ec) ==
  /\ processor'.window = window
  /\ processor'.result = Some([ec |-> ec, bytes |-> Len(window)])

\* What C32 says of CR NUL, CR LF, a lone NUL, and CR under BINARY.
LineEndings ==
  /\ (~RemoteBinary /\ incoming = <<CR, NUL>>) => Delivers(<<CR>>, "")
  /\ (~RemoteBinary /\ incoming = <<CR, LF>>) => Delivers(<<LF>>, "end_of_line")
  /\ (~RemoteBinary /\ incoming = <<NUL>>) =>
       /\ processor'.window = <<>>
       /\ processor'.waits = "read"
       /\ ~HasValue(processor'.result)
  /\ (RemoteBinary /\ incoming = <<CR>>) =>
       /\ Delivers(<<CR>>, "")
       /\ fsm_'.current_state_ = "Normal"

\* C32: with remote BINARY not enabled, CR NUL delivers one CR, CR LF
\* delivers LF and ends the read_some with end_of_line, a lone NUL delivers
\* nothing, and CR followed by a data byte delivers CR and the byte, in this
\* order, inside the application window; with remote BINARY enabled CR is
\* delivered as data and the parser stays in Normal.
C32_LineEndings ==
  [][TextDelivered =>
       /\ LineEndings
       /\ (~RemoteBinary /\ incoming = <<CR, DATA>>) =>
            /\ Delivers(<<CR, DATA>>, "")
            /\ Len(processor'.window) <= processor.cap]_vars

\* Under C32: the same with the case of CR and a data byte taken for windows
\* of two bytes and more.
C32_WithRoom ==
  [][TextDelivered =>
       /\ LineEndings
       /\ (~RemoteBinary /\ incoming = <<CR, DATA>> /\ processor.cap >= 2) =>
            Delivers(<<CR, DATA>>, "")]_vars

\* C33: the bytes between the window start and the write cursor are never
\* more than the capacity of the window, and no more are reported.
C33_WindowBound ==
  /\ Len(processor.window) <= processor.cap
  /\ HasValue(processor.result) => Value(processor.result).bytes <= processor.cap

(***************************************************************************)
(* The synchronous noexcept operations                                     *)
(***************************************************************************)
SyncOperations ==
  {"request_option", "disable_option", "read_some", "write_some", "write_raw",
   "write_command", "write_subnegotiation", "send_synch"}

\* Bound: the bytes an operation transfers.
MaxSyncBytes == 2

\* How the awaited asynchronous operation ends inside sync_await: with a
\* byte count, or with an exception, which the promise hands to future.get():
\* std::system_error carrying a code, std::bad_alloc, or any other.
SyncOutcomes ==
  {[kind |-> "value", ec |-> "", bytes |-> n] : n \in 0 .. MaxSyncBytes}
  \cup {[kind |-> "system_error", ec |-> ec, bytes |-> 0] :
          ec \in {"broken_pipe", "eof", "option_not_available"}}
  \cup {[kind |-> k, ec |-> "", bytes |-> 0] : k \in {"bad_alloc", "exception"}}

\* The throwing operation: the byte count is returned, an exception leaves
\* the function.
sync_throwing(op, outcome) == outcome

\* The noexcept operation called with the output parameter holding `ec`: the
\* catch clauses of this operation, in their order.
sync_noexcept(op, outcome, ec) ==
  LET r == sync_throwing(op, outcome)
      catches_bad_alloc == op \notin {"request_option", "disable_option"}
  IN IF r.kind = "value" THEN [ec |-> ec, bytes |-> r.bytes]
     ELSE IF r.kind = "system_error" THEN [ec |-> r.ec, bytes |-> 0]
     ELSE IF r.kind = "bad_alloc" /\ catches_bad_alloc THEN [ec |-> "not_enough_memory", bytes |-> 0]
     ELSE [ec |-> "internal_error", bytes |-> 0]

SyncInit ==
  /\ QIdle
  /\ FsmIdle
  /\ StreamIdle
  /\ CodecIdle
  /\ ThreadsIdle

\* The application calls a noexcept operation; `before` is what its error
\* code variable holds.
SyncCall(op, outcome, before) ==
  /\ app.op = "none"
  /\ LET r == sync_noexcept(op, outcome, before)
     IN app' = [outcome |-> outcome, ec_before |-> before, returned |-> r.bytes]
                 @@ [NoApp EXCEPT !.op = op, !.pc = "done", !.ec = r.ec]
  /\ UNCHANGED <<codec, threads, peer, chan, calls, sent, fsm_, last, context_, processor,
                 outstanding, buf, wire, incoming, tokens, oob_receive>>

SyncNext ==
  \E op \in SyncOperations, outcome \in SyncOutcomes, before \in {"", "broken_pipe"} :
    SyncCall(op, outcome, before)

SpecSync == SyncInit /\ [][SyncNext]_vars

SyncFailed == app.op \in SyncOperations /\ app.outcome.kind # "value"

\* C29: a noexcept operation whose underlying operation failed returns zero
\* and sets the error code to the code of the system error, to
\* not_enough_memory for an allocation failure and to internal_error for any
\* other exception.
C29_NoexceptMapping ==
  SyncFailed =>
    /\ app.returned = 0
    /\ app.ec = (CASE app.outcome.kind = "system_error" -> app.outcome.ec
                   [] app.outcome.kind = "bad_alloc" -> "not_enough_memory"
                   [] OTHER -> "internal_error")

\* Under C29: the mapping holds for the operations other than request_option
\* and disable_option, and these two return zero with an error code set.
C29_OtherOperations ==
  SyncFailed =>
    /\ app.returned = 0
    /\ app.ec # ""
    /\ app.op \notin {"request_option", "disable_option"} =>
         app.ec = (CASE app.outcome.kind = "system_error" -> app.outcome.ec
                     [] app.outcome.kind = "bad_alloc" -> "not_enough_memory"
                     [] OTHER -> "internal_error")

(***************************************************************************)
(* The urgent-data tracker under two threads                               *)
(***************************************************************************)
\* Thread "oob" runs the completion handler of the out-of-band receive, which
\* calls saw_urgent; thread "read" runs the read pipeline, which calls
\* saw_data_mark. Each statement of the two compare-exchange loops is a step.
TrackerThreads == {"oob", "read"}

TrackerStates == {"no_urgent_data", "has_urgent_data", "unexpected_data_mark"}

\* Bound: the calls one thread makes.
MaxTrackerCalls == 2

TrackerOp(t) == IF t = "oob" THEN "saw_urgent" ELSE "saw_data_mark"

\* What the call logs when it loads `state`.
TrackerLog(op, state) ==
  IF op = "saw_urgent"
    THEN (CASE state = "no_urgent_data" -> ""
            [] state = "unexpected_data_mark" -> "data_mark"
            [] OTHER -> "internal_error")
    ELSE (CASE state = "has_urgent_data" -> ""
            [] OTHER -> "data_mark")

\* Mutant: the desired state is stored without comparing.
compare_exchange_strong_Store(state, expected_state, desired_state) ==
  [success |-> TRUE, state |-> desired_state, expected_state |-> expected_state]

\* std::atomic::compare_exchange_strong on state_: the value is replaced when
\* it equals `expected_state`; otherwise the value found is handed back.
compare_exchange_strong(state, expected_state, desired_state) ==
  IF state = expected_state
    THEN [success |-> TRUE, state |-> desired_state, expected_state |-> expected_state]
    ELSE [success |-> FALSE, state |-> state, expected_state |-> state]

TrackerInit ==
  /\ QIdle
  /\ FsmIdle
  /\ CodecIdle
  /\ ThreadsIdle
  /\ processor = NoProcessor
  /\ app = NoApp
  /\ outstanding = <<>>
  /\ buf = [t \in TokenTypes |-> None]
  /\ wire = NoWrite
  /\ incoming = <<>>
  /\ tokens = 0
  /\ oob_receive = FALSE
  /\ \E state \in TrackerStates : context_ = [NewContext EXCEPT !.urgent_data_state = state]

\* Thread t enters saw_urgent or saw_data_mark.
TrackerCall(t) ==
  /\ threads[t].pc = "idle"
  /\ threads[t].calls < MaxTrackerCalls
  /\ threads' = [threads EXCEPT ![t] = [NoTrackerCall EXCEPT !.pc = "load", !.op = TrackerOp(t),
                                                              !.calls = threads[t].calls,
                                                              !.log = threads[t].log]]
  /\ UNCHANGED <<peer, chan, calls, sent, fsm_, last, streamVars, codec>>

\* The load of state_ and the branch on it: a desired state is chosen, or the
\* call logs and returns.
TrackerLoad(t) ==
  /\ threads[t].pc = "load"
  /\ LET expected_state == context_.urgent_data_state
         desired_state == IF threads[t].op = "saw_urgent" THEN saw_urgent(expected_state)
                          ELSE saw_data_mark(expected_state)
         returns == desired_state = expected_state
     IN threads' = [threads EXCEPT ![t].expected_state = expected_state,
                                   ![t].desired_state = desired_state,
                                   ![t].log = IF TrackerLog(threads[t].op, expected_state) = "" THEN @
                                              ELSE Append(@, TrackerLog(threads[t].op, expected_state)),
                                   ![t].pc = IF returns THEN "idle" ELSE "cas",
                                   ![t].calls = IF returns THEN @ + 1 ELSE @]
  /\ UNCHANGED <<peer, chan, calls, sent, fsm_, last, streamVars, codec>>

\* The compare-exchange and the loop condition.
TrackerCompareExchange(t) ==
  /\ threads[t].pc = "cas"
  /\ LET r == compare_exchange_strong(context_.urgent_data_state, threads[t].expected_state,
                                      threads[t].desired_state)
     IN /\ context_' = [context_ EXCEPT !.urgent_data_state = r.state]
        /\ threads' = [threads EXCEPT ![t].success = r.success,
                                      ![t].expected_state = r.expected_state,
                                      ![t].pc = IF r.success THEN "idle" ELSE "load",
                                      ![t].calls = IF r.success THEN @ + 1 ELSE @,
                                      ![t].failed = IF r.success THEN @ ELSE @ + 1]
  /\ UNCHANGED <<peer, chan, calls, sent, fsm_, last, processor, app, outstanding, buf, wire,
                 incoming, tokens, oob_receive, codec>>

TrackerStep(t) == TrackerLoad(t) \/ TrackerCompareExchange(t)

TrackerNext ==
  \/ \E t \in TrackerThreads : TrackerCall(t)
  \/ \E t \in TrackerThreads : TrackerLoad(t)
  \/ \E t \in TrackerThreads : TrackerCompareExchange(t)

SpecTracker == TrackerInit /\ [][TrackerNext]_vars

\* A thread that is in a call is scheduled again.
SpecTrackerFair == SpecTracker /\ \A t \in TrackerThreads : WF_vars(TrackerStep(t))


\* The state the tracker is to be in after a call of `op` that found it in
\* `state`.
TrackerAfter(op, state) ==
  IF op = "saw_urgent"
    THEN (IF state = "no_urgent_data" THEN "has_urgent_data"
          ELSE IF state = "unexpected_data_mark" THEN "no_urgent_data"
          ELSE "has_urgent_data")
    ELSE (IF state = "has_urgent_data" THEN "no_urgent_data"
          ELSE IF state = "no_urgent_data" THEN "unexpected_data_mark"
          ELSE "unexpected_data_mark")

TrackerReturns(t) == threads'[t].calls = threads[t].calls + 1

\* C23: the step at which a call of saw_urgent or saw_data_mark returns takes
\* the tracker from the state it is in to the state of the transition table
\* (NoUrgent to HasUrgent, UnexpectedDataMark to NoUrgent, HasUrgent unchanged
\* for saw_urgent; HasUrgent to NoUrgent, NoUrgent to UnexpectedDataMark,
\* UnexpectedDataMark unchanged for saw_data_mark); an internal error is logged
\* by saw_urgent in HasUrgent and by no other call; and no other step changes
\* the tracker.
C23_TrackerTransitions ==
  [][/\ \A t \in TrackerThreads :
          TrackerReturns(t) =>
            /\ context_'.urgent_data_state = TrackerAfter(threads[t].op, context_.urgent_data_state)
            /\ (Len(threads'[t].log) > Len(threads[t].log)
                  /\ threads'[t].log[Len(threads'[t].log)] = "internal_error")
                <=> (threads[t].op = "saw_urgent" /\ threads[t].pc = "load"
                       /\ context_.urgent_data_state = "has_urgent_data")
     /\ (\A t \in TrackerThreads : ~TrackerReturns(t))
          => context_'.urgent_data_state = context_.urgent_data_state]_vars

\* Witness: from HasUrgent, saw_urgent has logged the internal error,
\* saw_data_mark has reset the tracker, a second saw_data_mark has made it
\* UnexpectedDataMark and a second saw_urgent has reset it again.
C23_Witness ==
  /\ threads["oob"].log = <<"internal_error", "data_mark">>
  /\ threads["read"].log = <<"data_mark">>
  /\ \A t \in TrackerThreads : threads[t].calls = 2 /\ threads[t].pc = "idle"
  /\ context_.urgent_data_state = "no_urgent_data"

FromNoUrgent == context_.urgent_data_state = "no_urgent_data" /\ ThreadsIdle

OneCallEach == \A t \in TrackerThreads : threads[t].calls = 1 /\ threads[t].pc = "idle"

\* C24: when the tracker starts in NoUrgent, a thread that is in its first
\* call returns from it, and once one saw_urgent and one saw_data_mark have
\* returned, in whichever order their loads and compare-exchanges were taken,
\* both have made their transition and the tracker is in NoUrgent.
C24_Correlated ==
  FromNoUrgent =>
    /\ [](OneCallEach => /\ context_.urgent_data_state = "no_urgent_data"
                         /\ \A t \in TrackerThreads : threads[t].success)
    /\ \A t \in TrackerThreads :
         (threads[t].pc # "idle" /\ threads[t].calls = 0) ~> (threads[t].calls >= 1)

\* Witness: both calls have returned after one of them had its
\* compare-exchange fail against the other's update and went round its loop.
C24_Witness ==
  /\ OneCallEach
  /\ \A t \in TrackerThreads : threads[t].success
  /\ \E t \in TrackerThreads : threads[t].failed = 1
  /\ context_.urgent_data_state = "no_urgent_data"

\* Every thread has returned from the same number of calls, one at least:
\* as many urgent notifications as data marks have reached the tracker.
PairedCalls ==
  \E k \in 1 .. MaxTrackerCalls :
    \A t \in TrackerThreads : threads[t].calls = k /\ threads[t].pc = "idle"

\* The tracker as the stream constructs it, in NoUrgent.
SynchPairsInit == TrackerInit /\ FromNoUrgent

SpecSynchPairs == SynchPairsInit /\ [][TrackerNext]_vars

\* C40: when k urgent notifications and k data marks have reached the
\* tracker that started in NoUrgent, in whichever order, it is in NoUrgent again.
C40_SynchPairing == PairedCalls => context_.urgent_data_state = "no_urgent_data"

\* Under C40: the pairing holds when every urgent notification found the
\* tracker in NoUrgent and every data mark found it in HasUrgent, that is
\* when no call has logged anything.
C40_AlternatingPairing ==
  (PairedCalls /\ \A t \in TrackerThreads : threads[t].log = <<>>)
    => context_.urgent_data_state = "no_urgent_data"

====
